---- MODULE Spec2Model ----
(***************************************************************************)
(* The deterministic clinical entity pipeline: the negation scanner, the   *)
(* entity normalizers and the two entity extractors                        *)
(* (agents/clinical_nlp_agent.py and services/clinical_nlp.py), the        *)
(* timeline builder                                                        *)
(* (agents/temporal_agent.py) and the chunk assembler                      *)
(* (agents/rag_preparation_agent.py); and, around it, the vector store     *)
(* writer (services/upsert.py) and the pipeline that runs the steps        *)
(* (app/orchestrator.py, app/api/routes.py).                               *)
(*                                                                         *)
(* A Python str is a sequence of one-character strings.  An optional       *)
(* value (a dict key that may be absent, or a value that may be None) is   *)
(* a sequence of length 0 (absent / None) or 1 (present).                  *)
(***************************************************************************)
EXTENDS Integers, Sequences, FiniteSets, TLC

VARIABLES
    nText,       \* _is_negated: the text argument
    nStart,      \* _is_negated: the start argument
    nResult,     \* _is_negated: <<>> before the call, <<returned value>> after
    zInput,      \* normalizers: the entity string
    zAgent,      \* <<_normalize(x), _normalize(_normalize(x))>> once called
    zService,    \* <<normalize(x), normalize(normalize(x))>> once called
    entities,    \* build_timeline: the list of mentions passed in
    timeline,    \* build_timeline: the returned dict, <<>> before the call
    ragEntities, \* prepare_rag_chunks: the list of mentions passed in
    ragChunks,   \* prepare_rag_chunks: <<>> before the call, <<returned list>> after
    docs,        \* extract_entities: the list of Documents passed in
    aOut,        \* agent extract_entities: <<>> before the call, <<returned list>> after
    sOut,        \* service extract_entities: <<>> before the call, <<returned list>> after
    sText,       \* service text functions: the text argument
    sDocType,    \* detect_doc_type: <<>> before the call, <<returned tag>> after
    sLabs,       \* extract_labs_robust: <<>> before the call, <<returned list>> after
    callLog,     \* repeated calls: what each call made so far has returned
    state,       \* pipeline: the ClinicalState
    pc,          \* pipeline: the step the entry point is about to make
    response,    \* pipeline: <<>>, or <<what the entry point answered>>
    uInput,      \* upsert_embeddings: the embedding_output passed in
    uVectors,    \* upsert_embeddings: the vectors list it has built
    uResult      \* upsert_embeddings: <<>> before the call, <<outcome>> after

negVars == <<nText, nStart, nResult>>
normVars == <<zInput, zAgent, zService>>
tlVars == <<entities, timeline>>
ragVars == <<ragEntities, ragChunks>>
exVars == <<docs, aOut, sOut>>
svcVars == <<sText, sDocType, sLabs>>
repVars == <<callLog>>
orchVars == <<state, pc, response>>
upVars == <<uInput, uVectors, uResult>>
vars == <<nText, nStart, nResult, zInput, zAgent, zService,
          entities, timeline, ragEntities, ragChunks,
          docs, aOut, sOut, sText, sDocType, sLabs,
          callLog, state, pc, response, uInput, uVectors, uResult>>

None == <<>>
Some(x) == <<x>>

(***************************************************************************)
(* Python str operations                                                   *)
(***************************************************************************)
LowerAlpha == <<"a","b","c","d","e","f","g","h","i","j","k","l","m",
                "n","o","p","q","r","s","t","u","v","w","x","y","z">>
UpperAlpha == <<"A","B","C","D","E","F","G","H","I","J","K","L","M",
                "N","O","P","Q","R","S","T","U","V","W","X","Y","Z">>

\* the upper-case letters, and each one's lower-case letter
UpperLetters == {UpperAlpha[i] : i \in 1..Len(UpperAlpha)}
ToLower == [c \in UpperLetters |-> LowerAlpha[CHOOSE i \in 1..Len(UpperAlpha) : UpperAlpha[i] = c]]

\* the lower-case letters, and each one's upper-case letter
LowerLetters == {LowerAlpha[i] : i \in 1..Len(LowerAlpha)}
ToUpper == [c \in LowerLetters |-> UpperAlpha[CHOOSE i \in 1..Len(LowerAlpha) : LowerAlpha[i] = c]]

LowerChar(c) == IF c \in UpperLetters THEN ToLower[c] ELSE c

UpperChar(c) == IF c \in LowerLetters THEN ToUpper[c] ELSE c

\* str.lower()
Lower(s) == [i \in 1..Len(s) |-> LowerChar(s[i])]

\* str.upper()
Upper(s) == [i \in 1..Len(s) |-> UpperChar(s[i])]

\* the characters str.strip(), str.split() and the regex class \s treat as whitespace
Whitespace == {" ", "\t", "\n"}

Max(a, b) == IF a >= b THEN a ELSE b
Min(a, b) == IF a <= b THEN a ELSE b

\* a slice bound as Python resolves it: a negative bound counts from the end,
\* and the result is clamped to 0..len(s)
SliceIndex(s, i) == IF i < 0 THEN Max(0, Len(s) + i) ELSE Min(i, Len(s))

\* s[lo:hi]
Slice(s, lo, hi) == SubSeq(s, SliceIndex(s, lo) + 1, SliceIndex(s, hi))

\* sub occurs in s at offset i
OccursAt(s, sub, i) ==
    i + Len(sub) <= Len(s) /\ \A k \in 1..Len(sub) : s[i + k] = sub[k]

\* sub in s
Contains(s, sub) == \E i \in 0..(Len(s) - Len(sub)) : OccursAt(s, sub, i)

\* s.find(sub)
Find(s, sub) ==
    IF Contains(s, sub)
    THEN CHOOSE i \in 0..(Len(s) - Len(sub)) :
            OccursAt(s, sub, i) /\ \A j \in 0..(i - 1) : ~OccursAt(s, sub, j)
    ELSE -1

\* c * n
Rep(c, n) == [i \in 1..n |-> c]

(***************************************************************************)
(* Entity normalizers                                                      *)
(***************************************************************************)
Indices(s) == [i \in 1..Len(s) |-> i]

\* s with the characters at the indices that satisfy Keep(i), in order
SelectIndices(s, Keep(_)) ==
    LET kept == SelectSeq(Indices(s), Keep)
    IN  [k \in 1..Len(kept) |-> s[kept[k]]]

\* str.strip()
Strip(s) ==
    IF \A i \in 1..Len(s) : s[i] \in Whitespace THEN <<>>
    ELSE SubSeq(s,
           CHOOSE i \in 1..Len(s) :
              s[i] \notin Whitespace /\ \A j \in 1..(i - 1) : s[j] \in Whitespace,
           Len(s) + 1 - CHOOSE k \in 1..Len(s) :
              /\ s[Len(s) + 1 - k] \notin Whitespace
              /\ \A j \in 1..(k - 1) : s[Len(s) + 1 - j] \in Whitespace)

\* str.replace(" ", "_")
ReplaceSpaces(s) == [i \in 1..Len(s) |-> IF s[i] = " " THEN "_" ELSE s[i]]

\* s with each run of whitespace replaced by the one character rep: the
\* first character of a run becomes rep and the rest of the run goes
ReplaceWhitespaceRuns(s, rep) ==
    LET first == SelectSeq(Indices(s),
                    LAMBDA i : s[i] \notin Whitespace
                               \/ i = 1 \/ s[i - 1] \notin Whitespace)
    IN  [k \in 1..Len(first) |->
            IF s[first[k]] \in Whitespace THEN rep ELSE s[first[k]]]

\* re.sub(r"\s+", "_", s)
SubWhitespaceRuns(s) == ReplaceWhitespaceRuns(s, "_")

\* " ".join(s.split())
JoinSplit(s) == ReplaceWhitespaceRuns(Strip(s), " ")

\* str.replace(" ", "_", 1): only the first space replaced
ReplaceFirstSpace(s) ==
    [i \in 1..Len(s) |->
        IF s[i] = " " /\ (\A j \in 1..(i - 1) : s[j] # " ") THEN "_" ELSE s[i]]

\* the agent's normalizer replacing one space only
_normalize_first(entity) == ReplaceFirstSpace(Upper(entity))

\* agents/clinical_nlp_agent.py
_normalize(entity) == ReplaceSpaces(Upper(entity))

\* services/clinical_nlp.py
normalize(e) == SubWhitespaceRuns(Upper(Strip(e)))

(***************************************************************************)
(* Negation scanner                                                        *)
(***************************************************************************)
NEGATION_CUES ==
    { <<"n","o">>,
      <<"n","o","t">>,
      <<"d","e","n","i","e","s">>,
      <<"d","e","n","i","e","d">>,
      <<"w","i","t","h","o","u","t">>,
      <<"a","b","s","e","n","c","e"," ","o","f">>,
      <<"n","e","g","a","t","i","v","e"," ","f","o","r">>,
      <<"f","r","e","e"," ","o","f">> }

NegationWindow == 40

\* the scanner with a window one character too long
_is_negated_wide(text, start) ==
    LET window == Lower(Slice(text, Max(0, start - (NegationWindow + 1)), start))
    IN  \E cue \in NEGATION_CUES : Contains(window, cue)

_is_negated(text, start) ==
    LET window == Lower(Slice(text, Max(0, start - NegationWindow), start))
    IN  \E cue \in NEGATION_CUES : Contains(window, cue)

(***************************************************************************)
(* Mentions.  Fields the code only copies or compares (entity, normalized, *)
(* type, unit) are TLA+ strings; fields it parses, scans or formats (date, *)
(* value, context, source, section) are character sequences.  date, value, *)
(* unit and section are optional.                                          *)
(***************************************************************************)
Mention(normalized, type, negated, value, date, context, source, section) ==
    [ entity |-> normalized, type |-> type, normalized |-> normalized,
      negated |-> negated, value |-> value, unit |-> None,
      context |-> context, date |-> date, source |-> source,
      section |-> section ]

\* sorted(pairs, key=first), pairs being <<key, item>>: an insertion sort
\* that puts each pair after the pairs already placed whose key is not
\* greater, as a stable sort does
InsertByKey(placed, pair) ==
    LET n == Cardinality({i \in 1..Len(placed) : placed[i][1] <= pair[1]})
    IN  SubSeq(placed, 1, n) \o <<pair>> \o SubSeq(placed, n + 1, Len(placed))

RECURSIVE SortedPairs(_)
SortedPairs(pairs) ==
    IF pairs = <<>> THEN <<>>
    ELSE InsertByKey(SortedPairs(SubSeq(pairs, 1, Len(pairs) - 1)),
                     pairs[Len(pairs)])

(***************************************************************************)
(* Timeline builder                                                        *)
(***************************************************************************)
Digits == <<"0","1","2","3","4","5","6","7","8","9">>

IsDigit(c) == \E i \in 1..Len(Digits) : Digits[i] = c

DigitVal(c) == (CHOOSE i \in 1..Len(Digits) : Digits[i] = c) - 1

\* the number a string of one or two digits denotes
TwoDigitVal(s) ==
    IF Len(s) = 1 THEN DigitVal(s[1]) ELSE 10 * DigitVal(s[1]) + DigitVal(s[2])

IsLeap(y) == (y % 4 = 0 /\ y % 100 # 0) \/ y % 400 = 0

DaysInMonth(y, m) ==
    IF m = 2 THEN (IF IsLeap(y) THEN 29 ELSE 28)
    ELSE IF m \in {4, 6, 9, 11} THEN 30 ELSE 31

\* a datetime as the number yyyymmdd, which orders dates as datetime does
DateKey(y, m, d) == y * 10000 + m * 100 + d

\* datetime.max, later than every date strptime can return
DatetimeMax == DateKey(9999, 12, 31) + 1

\* %m and %d: one digit 1-9 or two digits, not "00" (%d also takes a space
\* and a digit)
IsMonthOrDayToken(s, allowSpace) ==
    \/ Len(s) = 1 /\ IsDigit(s[1]) /\ s[1] # "0"
    \/ Len(s) = 2 /\ IsDigit(s[1]) /\ IsDigit(s[2]) /\ TwoDigitVal(s) # 0
    \/ allowSpace /\ Len(s) = 2 /\ s[1] = " " /\ IsDigit(s[2]) /\ s[2] # "0"

TokenVal(s) == IF s[1] = " " THEN DigitVal(s[2]) ELSE TwoDigitVal(s)

\* datetime.strptime(s, "%Y-%m-%d"): <<key>> when s parses, <<>> when it
\* raises ValueError
Strptime(s) ==
    LET dashes == {i \in 6..Len(s) : s[i] = "-"}
    IN  IF /\ Len(s) >= 8
           /\ \A i \in 1..4 : IsDigit(s[i])
           /\ s[5] = "-"
           /\ Cardinality(dashes) = 1
        THEN LET j == CHOOSE i \in dashes : TRUE
                 y == 1000 * DigitVal(s[1]) + 100 * DigitVal(s[2])
                      + 10 * DigitVal(s[3]) + DigitVal(s[4])
                 mm == SubSeq(s, 6, j - 1)
                 dd == SubSeq(s, j + 1, Len(s))
             IN  IF /\ IsMonthOrDayToken(mm, FALSE)
                    /\ IsMonthOrDayToken(dd, TRUE)
                    /\ y >= 1
                    /\ TokenVal(mm) <= 12
                    /\ TokenVal(dd) <= DaysInMonth(y, TokenVal(mm))
                 THEN Some(DateKey(y, TokenVal(mm), TokenVal(dd)))
                 ELSE None
        ELSE None

\* parse_date with datetime.min for an unknown date
parse_date_first(e) ==
    IF e.date # None /\ e.date[1] # <<>> /\ Strptime(e.date[1]) # None
    THEN Strptime(e.date[1])[1]
    ELSE 0

parse_date(e) ==
    IF e.date # None /\ e.date[1] # <<>> /\ Strptime(e.date[1]) # None
    THEN Strptime(e.date[1])[1]
    ELSE DatetimeMax

_order_by_time(ents) ==
    LET sorted == SortedPairs([i \in 1..Len(ents) |-> <<parse_date(ents[i]), ents[i]>>])
    IN  [i \in 1..Len(sorted) |-> sorted[i][2]]

\* the grouping with each event put at the front of its group
_group_by_entity_newest_first(events) ==
    LET firsts == SelectSeq(Indices(events),
                    LAMBDA i : \A j \in 1..(i - 1) :
                                  events[j].normalized # events[i].normalized)
    IN  [k \in 1..Len(firsts) |->
            [ entity |-> events[firsts[k]].normalized,
              events |->
                LET own == SelectSeq(events,
                              LAMBDA e : e.normalized = events[firsts[k]].normalized)
                IN  [i \in 1..Len(own) |-> own[Len(own) + 1 - i]] ]]

\* the grouping with the events that have no parsable date dropped
_group_by_entity_dated(events) ==
    LET dated == SelectSeq(events, LAMBDA e : parse_date(e) # DatetimeMax)
        firsts == SelectSeq(Indices(dated),
                    LAMBDA i : \A j \in 1..(i - 1) :
                                  dated[j].normalized # dated[i].normalized)
    IN  [k \in 1..Len(firsts) |->
            [ entity |-> dated[firsts[k]].normalized,
              events |-> SelectSeq(dated,
                            LAMBDA e : e.normalized = dated[firsts[k]].normalized) ]]
\* the dict of _group_by_entity as the sequence of its items, in insertion
\* order: one [entity, events] per normalized id, in order of first event
_group_by_entity(events) ==
    LET firsts == SelectSeq(Indices(events),
                    LAMBDA i : \A j \in 1..(i - 1) :
                                  events[j].normalized # events[i].normalized)
    IN  [k \in 1..Len(firsts) |->
            [ entity |-> events[firsts[k]].normalized,
              events |-> SelectSeq(events,
                            LAMBDA e : e.normalized = events[firsts[k]].normalized) ]]

\* 10 ** n
RECURSIVE Pow10(_)
Pow10(n) == IF n = 0 THEN 1 ELSE 10 * Pow10(n - 1)

\* the number a string of digits denotes
RECURSIVE DigitsVal(_)
DigitsVal(s) ==
    IF s = <<>> THEN 0
    ELSE 10 * DigitsVal(SubSeq(s, 1, Len(s) - 1)) + DigitVal(s[Len(s)])

NaN == [kind |-> "nan", m |-> 0, e |-> 0]

\* the float m / 10**e, with e as small as it can be, so that equal numbers
\* are equal records
RECURSIVE Decimal(_, _)
Decimal(m, e) ==
    IF e > 0 /\ m % 10 = 0 THEN Decimal(m \div 10, e - 1)
    ELSE [kind |-> "num", m |-> m, e |-> e]

\* float(v) for v a str of the forms [sign] digits [. digits], [sign] . digits
\* and "nan" (any letter case), surrounded by optional whitespace: <<x>>, or
\* <<>> when float raises ValueError.  Exponents, "inf" and digit-group
\* underscores are not among the inputs drawn.
ParseFloatStr(v) ==
    LET t == Strip(v)
        signed == t # <<>> /\ t[1] \in {"+", "-"}
        u == IF signed THEN Tail(t) ELSE t
        dots == {i \in 1..Len(u) : u[i] = "."}
    IN  IF Lower(u) = <<"n","a","n">> THEN Some(NaN)
        ELSE IF /\ \A i \in 1..Len(u) : IsDigit(u[i]) \/ u[i] = "."
                /\ Cardinality(dots) <= 1
                /\ \E i \in 1..Len(u) : IsDigit(u[i])
        THEN LET int == IF dots = {} THEN u
                        ELSE SubSeq(u, 1, (CHOOSE i \in dots : TRUE) - 1)
                 frac == IF dots = {} THEN <<>>
                         ELSE SubSeq(u, (CHOOSE i \in dots : TRUE) + 1, Len(u))
                 mag == DigitsVal(int \o frac)
             IN  Some(Decimal(IF signed /\ t[1] = "-" THEN 0 - mag ELSE mag,
                              Len(frac)))
        ELSE None

\* float(e["value"]): <<x>>, or <<>> when the lookup or float raises (a
\* missing key, None, a string that is no number)
ParseFloat(e) == IF e.value = None THEN None ELSE ParseFloatStr(e.value[1])

\* a > b and a < b on floats; every comparison with NaN is false
FloatGt(a, b) ==
    a.kind = "num" /\ b.kind = "num" /\ a.m * Pow10(b.e) > b.m * Pow10(a.e)

FloatLt(a, b) ==
    a.kind = "num" /\ b.kind = "num" /\ a.m * Pow10(b.e) < b.m * Pow10(a.e)

\* the values list of the lab branch: the floats of the events whose value
\* parses, in order
LabValues(events) ==
    LET parsed == SelectSeq(events, LAMBDA e : ParseFloat(e) # None)
    IN  [i \in 1..Len(parsed) |-> ParseFloat(parsed[i])[1]]

EventDates(events) == [i \in 1..Len(events) |-> events[i].date]

\* the trend taken from the last two values instead of the last and first
TrendOfLastStep(values) ==
    IF FloatGt(values[Len(values)], values[Len(values) - 1]) THEN "increasing"
    ELSE IF FloatLt(values[Len(values)], values[Len(values) - 1]) THEN "decreasing"
    ELSE "stable"

\* the trend of the lab branch
Trend(values) ==
    IF FloatGt(values[Len(values)], values[1]) THEN "increasing"
    ELSE IF FloatLt(values[Len(values)], values[1]) THEN "decreasing"
    ELSE "stable"

\* the recurrence test met by a symptom or condition anywhere in the group
IsRecurrentTypeAny(events) ==
    \E i \in 1..Len(events) : events[i].type \in {"symptom", "condition"}

\* the recurrence test asking every event, not the first, for its type
IsRecurrentTypeAll(events) ==
    \A i \in 1..Len(events) : events[i].type \in {"symptom", "condition"}

\* the test of the recurrence branch
IsRecurrentType(events) == events[1].type \in {"symptom", "condition"}

\* what one pass of the loop of _detect_progression appends for one group
ProgressionsOf(group) ==
    LET events == group.events
    IN  IF Len(events) < 2 THEN <<>>
        ELSE
          (IF IsRecurrentType(events)
           THEN << [ entity |-> group.entity, type |-> events[1].type,
                     pattern |-> "recurrent", occurrences |-> Len(events),
                     dates |-> EventDates(events) ] >>
           ELSE <<>>)
          \o
          (IF events[1].type = "lab" /\ Len(LabValues(events)) >= 2
           THEN << [ entity |-> group.entity, type |-> "lab",
                     pattern |-> Trend(LabValues(events)),
                     values |-> LabValues(events),
                     dates |-> EventDates(events) ] >>
           ELSE <<>>)

RECURSIVE _detect_progression(_)
_detect_progression(entity_history) ==
    IF entity_history = <<>> THEN <<>>
    ELSE ProgressionsOf(Head(entity_history))
         \o _detect_progression(Tail(entity_history))

\* the negation states of the first and last events only
NegationStatesOfEnds(events) ==
    {events[1].negated, events[Len(events)].negated}

\* the set negation_states of _detect_conflicts
NegationStates(events) == {events[i].negated : i \in 1..Len(events)}

\* what one pass of the loop of _detect_conflicts appends for one group
ConflictsOf(group) ==
    LET events == group.events
        negation_states == NegationStates(events)
    IN  IF Cardinality(negation_states) > 1
        THEN << [ entity |-> group.entity, issue |-> "negation_conflict",
                  events |-> [i \in 1..Len(events) |->
                                [ date |-> events[i].date,
                                  negated |-> events[i].negated,
                                  context |-> events[i].context,
                                  source |-> events[i].source ]] ] >>
        ELSE <<>>

RECURSIVE _detect_conflicts(_)
_detect_conflicts(entity_history) ==
    IF entity_history = <<>> THEN <<>>
    ELSE ConflictsOf(Head(entity_history))
         \o _detect_conflicts(Tail(entity_history))

build_timeline(ents) ==
    LET ordered_events == _order_by_time(ents)
        entity_history == _group_by_entity(ordered_events)
    IN  [ timeline |-> ordered_events,
          entity_history |-> entity_history,
          progressions |-> _detect_progression(entity_history),
          conflicts |-> _detect_conflicts(entity_history) ]

(***************************************************************************)
(* Chunk assembler                                                         *)
(***************************************************************************)
MAX_CHARS == 2000

unspecified == <<"u","n","s","p","e","c","i","f","i","e","d">>

\* str(x) of an optional string, as an f-string formats it
Format(opt) == IF opt = None THEN <<"N","o","n","e">> ELSE opt[1]

\* the grouping key without the section
GroupKeyNoSection(ent) == <<ent.source, ent.date, unspecified>>

\* the grouping key of _group_entities
GroupKey(ent) ==
    << ent.source, ent.date,
       IF ent.section = None THEN unspecified ELSE ent.section[1] >>

\* the dict of _group_entities as the sequence of its items, in insertion
\* order: one [key, ents] per key, in order of first mention
_group_entities(ents) ==
    LET firsts == SelectSeq(Indices(ents),
                    LAMBDA i : \A j \in 1..(i - 1) : GroupKey(ents[j]) # GroupKey(ents[i]))
    IN  [k \in 1..Len(firsts) |->
            [ key |-> GroupKey(ents[firsts[k]]),
              ents |-> SelectSeq(ents,
                          LAMBDA e : GroupKey(e) = GroupKey(ents[firsts[k]])) ]]

\* the list contexts after the deduplication loop of _build_chunk: the
\* stripped context of each mention whose whitespace-collapsed, lower-cased
\* form no earlier mention has
UniqueContexts(ents) ==
    LET norm == [i \in 1..Len(ents) |-> JoinSplit(Lower(Strip(ents[i].context)))]
        kept == SelectSeq(Indices(ents),
                    LAMBDA i : \A j \in 1..(i - 1) : norm[j] # norm[i])
    IN  [k \in 1..Len(kept) |-> Strip(ents[kept[k]].context)]

\* sorted(contexts, key=lambda c: entities[0]["context"].find(c))
OrderedContexts(ents) ==
    LET contexts == UniqueContexts(ents)
        sorted == SortedPairs([i \in 1..Len(contexts) |->
                      <<Find(ents[1].context, contexts[i]), contexts[i]>>])
    IN  [i \in 1..Len(sorted) |-> sorted[i][2]]

\* "\n".join(contexts)
RECURSIVE JoinLines(_)
JoinLines(contexts) ==
    IF contexts = <<>> THEN <<>>
    ELSE IF Len(contexts) = 1 THEN contexts[1]
    ELSE contexts[1] \o <<"\n">> \o JoinLines(Tail(contexts))

\* the size bound cutting one character late
TruncateLate(chunk_text) ==
    IF Len(chunk_text) > MAX_CHARS + 1
    THEN Slice(chunk_text, 0, MAX_CHARS + 1)
    ELSE chunk_text

\* the size bound of _build_chunk
Truncate(chunk_text) ==
    IF Len(chunk_text) > MAX_CHARS THEN Slice(chunk_text, 0, MAX_CHARS)
    ELSE chunk_text

\* f"{source}_{date}_{section}"
\* the base of the id without the date
ChunkIdBaseNoDate(source, date, section) ==
    source \o <<"_">> \o section
ChunkIdBase(source, date, section) ==
    source \o <<"_">> \o Format(date) \o <<"_">> \o section

\* _generate_chunk_id, hex being the 8 characters uuid4 supplied
_generate_chunk_id(source, date, section, hex) ==
    ChunkIdBase(source, date, section) \o <<"_">> \o hex

\* the metadata loop with a lab mention equal to an earlier one left out
LabRecordsOnce(ents) ==
    LET labs == SelectSeq(Indices(ents),
                    LAMBDA i : ents[i].type = "lab"
                               /\ \A j \in 1..(i - 1) : ents[j] # ents[i])
    IN  [i \in 1..Len(labs) |->
            [ lab |-> ents[labs[i]].normalized, value |-> ents[labs[i]].value,
              unit |-> ents[labs[i]].unit, context |-> ents[labs[i]].context ]]

\* the list labs after the metadata loop of _build_chunk
LabRecords(ents) ==
    LET labs == SelectSeq(ents, LAMBDA e : e.type = "lab")
    IN  [i \in 1..Len(labs) |->
            [ lab |-> labs[i].normalized, value |-> labs[i].value,
              unit |-> labs[i].unit, context |-> labs[i].context ]]

\* _build_chunk: <<>> for None, <<chunk>> otherwise.  entities,
\* entity_types and negated_entities are sorted lists of sets in the code and
\* are the sets here.
_build_chunk(source, date, section, ents, doc_type, hex) ==
    IF ents = <<>> THEN None
    ELSE IF UniqueContexts(ents) = <<>> THEN None
    ELSE Some(
            [ chunk_id |-> _generate_chunk_id(source, date, section, hex),
              text |-> Truncate(JoinLines(OrderedContexts(ents))),
              entities |-> {ents[i].normalized : i \in 1..Len(ents)},
              entity_types |-> {ents[i].type : i \in 1..Len(ents)},
              section |-> section,
              date |-> date,
              source |-> source,
              metadata |->
                [ doc_type |-> doc_type,
                  negated_entities |->
                     {ents[i].normalized : i \in {j \in 1..Len(ents) : ents[j].negated}},
                  labs |-> LabRecords(ents) ] ])

\* the loop of prepare_rag_chunks over the groups, hexes[k] being what uuid4
\* supplies for group k
RECURSIVE ChunksOf(_, _, _)
ChunksOf(grouped, doc_type, hexes) ==
    IF grouped = <<>> THEN <<>>
    ELSE LET g == Head(grouped)
         IN  _build_chunk(g.key[1], g.key[2], g.key[3], g.ents,
                          doc_type, Head(hexes))
             \o ChunksOf(Tail(grouped), doc_type, Tail(hexes))

prepare_rag_chunks(ents, doc_type, hexes) ==
    ChunksOf(_group_entities(ents), doc_type, hexes)

(***************************************************************************)
(* Service extractor (services/clinical_nlp.py): document type detection   *)
(* and the line-heuristic lab parser                                       *)
(***************************************************************************)
\* detect_doc_type: its list of markers
lab_markers ==
    << <<"b","i","l","i","r","u","b","i","n">>, <<"s","g","o","t">>,
      <<"s","g","p","t">>, <<"a","l","k","a","l","i","n","e">>,
      <<"a","l","b","u","m","i","n">>, <<"g","l","o","b","u","l","i","n">>,
      <<"s","e","r","u","m">>, <<"l","f","t">>,
      <<"h","e","m","o","g","l","o","b","i","n">>,
      <<"p","l","a","t","e","l","e","t">>,
      <<"n","e","u","t","r","o","p","h","i","l","s">>,
      <<"l","y","m","p","h","o","c","y","t","e","s">>,
      <<"i","n","v","e","s","t","i","g","a","t","i","o","n">>,
      <<"o","b","s","e","r","v","e","d"," ","v","a","l","u","e">>,
      <<"b","i","o","l","o","g","i","c","a","l"," ","r","e","f">>,
      <<"m","e","t","h","o","d">>, <<"u","n","i","t">> >>

\* the score of detect_doc_type: one for every marker found in the
\* lower-cased text, however often it occurs there
MarkerScore(text) ==
    LET text_lower == Lower(text)
    IN  Cardinality({k \in 1..Len(lab_markers) : Contains(text_lower, lab_markers[k])})

detect_doc_type(text) ==
    IF MarkerScore(text) >= 2 THEN "lab_report" ELSE "clinical_note"

JUNK_PREFIXES ==
    << <<"i","s","o">>, <<"i"," ","s","o">>, <<"r","e","g","n">>,
      <<"m","c","i">>, <<"h","o","s","p","i","t","a","l">>,
      <<"s","p","e","c","i","m","e","n">>,
      <<"f","a","c","i","l","i","t","y">>, <<"n","o","t","e">>,
      <<"e","n","d"," ","o","f"," ","r","e","p","o","r","t">>,
      <<"d","o","c","t","o","r">>, <<"p","a","t","i","e","n","t">>,
      <<"c","o","m","p","a","n","y">>, <<"s","p","o","n","s","o","r">> >>

\* UNIT_CLEANUP as the sequence of its <<key, value>> items
UNIT_CLEANUP ==
    << <<<<"m","g","d","l">>, <<"m","g","/","d","L">>>>,
      <<<<"m","g","/","d","l">>, <<"m","g","/","d","L">>>>,
      <<<<"m","g","i","d">>, <<"m","g","/","d","L">>>>,
      <<<<"u","/","l">>, <<"U","/","L">>>>,
      <<<<"i","u","l">>, <<"I","U","/","L">>>>,
      <<<<"u","/","1">>, <<"U","/","L">>>>,
      <<<<"g","n","v","d","l">>, <<"g","/","d","L">>>>,
      <<<<"g","i","i","v","d","l">>, <<"g","/","d","L">>>>,
      <<<<"o","m","d","t">>, <<"g","/","d","L">>>>,
      <<<<"g","/","d","l">>, <<"g","/","d","L">>>> >>

\* s.startswith(prefix)
StartsWith(s, prefix) == OccursAt(s, prefix, 0)

\* text.splitlines() for texts whose only line break is "\n": the pieces
\* between the breaks, without an empty piece after a final break
SplitLines(text) ==
    LET breaks == SelectSeq(Indices(text), LAMBDA i : text[i] = "\n")
        n == Len(breaks)
        from(k) == IF k = 1 THEN 1 ELSE breaks[k - 1] + 1
        to(k) == IF k = n + 1 THEN Len(text) ELSE breaks[k] - 1
        count == IF from(n + 1) > Len(text) THEN n ELSE n + 1
    IN  [k \in 1..count |-> SubSeq(text, from(k), to(k))]

\* the number of digits s has from index i on, before its first non-digit
DigitRun(s, i) ==
    LET stops == {j \in i..Len(s) : ~IsDigit(s[j])}
    IN  IF stops = {} THEN Len(s) - i + 1
        ELSE (CHOOSE j \in stops : \A k \in stops : j <= k) - i

IsSpace(s, i) == i >= 1 /\ i <= Len(s) /\ s[i] \in Whitespace

\* the length of group 1 when \s(\d{1,4}(?:\.\d{1,2})?)\s matches with its
\* \s on offset p of padded, 0 when it does not match there: 1 to 4 digits,
\* then possibly a dot and 1 or 2 digits, between two whitespace characters
ValueLenAt(padded, p) ==
    LET d == DigitRun(padded, p + 2)
        f == DigitRun(padded, p + 3 + d)
    IN  IF ~IsSpace(padded, p + 1) \/ d < 1 \/ d > 4 THEN 0
        ELSE IF IsSpace(padded, p + 2 + d) THEN d
        ELSE IF /\ p + 2 + d <= Len(padded)
                /\ padded[p + 2 + d] = "."
                /\ f \in {1, 2}
                /\ IsSpace(padded, p + 3 + d + f)
        THEN d + 1 + f
        ELSE 0

\* re.search of that pattern in padded: <<>> for no match, else
\* <<[start, group1]>>, the leftmost match
ValueSearch(padded) ==
    LET hits == {p \in 0..(Len(padded) - 1) : ValueLenAt(padded, p) > 0}
    IN  IF hits = {} THEN None
        ELSE LET p == CHOOSE q \in hits : \A r \in hits : q <= r
             IN  Some([start |-> p,
                       group1 |-> SubSeq(padded, p + 2, p + 1 + ValueLenAt(padded, p))])

NameChars == LowerLetters \cup UpperLetters \cup {Digits[i] : i \in 1..Len(Digits)}
                \cup Whitespace \cup {"(", ")"}

\* re.sub(r"[^a-zA-Z0-9\s\(\)]+$", "", s): s without its final run of
\* characters that are no letter, digit, whitespace or parenthesis
StripNameNoise(s) ==
    LET keep == {i \in 1..Len(s) : s[i] \in NameChars}
    IN  IF keep = {} THEN <<>>
        ELSE SubSeq(s, 1, CHOOSE i \in keep : \A j \in keep : j <= i)

UnitChars == LowerLetters \cup UpperLetters \cup {"/", "%"}

\* group 1 of re.search(r'^([a-zA-Z/%]+)', s), or "" without a match
LeadingUnit(s) ==
    LET stops == {i \in 1..Len(s) : s[i] \notin UnitChars}
    IN  IF stops = {} THEN s
        ELSE SubSeq(s, 1, (CHOOSE i \in stops : \A j \in stops : i <= j) - 1)

\* UNIT_CLEANUP.get(key, default)
UnitCleanupGet(key, default) ==
    IF \E k \in 1..Len(UNIT_CLEANUP) : UNIT_CLEANUP[k][1] = key
    THEN UNIT_CLEANUP[CHOOSE k \in 1..Len(UNIT_CLEANUP) : UNIT_CLEANUP[k][1] = key][2]
    ELSE default

\* the name test that lets names of 2 characters pass
NameRejectedBelowTwo(left_part) ==
    Len(left_part) < 2 \/ \E i \in 1..Len(left_part) : IsDigit(left_part[i])

\* len(left_part) < 3 or re.search(r'\d', left_part)
NameRejected(left_part) ==
    Len(left_part) < 3 \/ \E i \in 1..Len(left_part) : IsDigit(left_part[i])

\* one pass of the loop of extract_labs_robust: <<>> when the line is
\* skipped, else <<the dict appended>>.  value, unit and span, the keys a
\* consumer reads with .get(), are held as optional values.
LabOfLine(text, line) ==
    LET clean_line == Strip(line)
        lower_line == Lower(clean_line)
        value_match == ValueSearch(<<" ">> \o clean_line \o <<" ">>)
        value_str == value_match[1].group1
        start_idx == value_match[1].start - 1
        left_part == Strip(StripNameNoise(Strip(Slice(clean_line, 0, start_idx))))
        right_part == Strip(Slice(clean_line, start_idx + Len(value_str),
                                  Len(clean_line)))
        unit == LeadingUnit(right_part)
        unit_clean == SelectSeq(Lower(unit), LAMBDA c : c # ".")
        final_unit == UnitCleanupGet(unit_clean, unit)
    IN  IF Len(clean_line) < 5 THEN None
        ELSE IF \E k \in 1..Len(JUNK_PREFIXES) : StartsWith(lower_line, JUNK_PREFIXES[k])
        THEN None
        ELSE IF value_match = None THEN None
        ELSE IF NameRejected(left_part) THEN None
        ELSE Some([ entity |-> left_part, type |-> "lab",
                    value |-> Some(value_str), unit |-> Some(final_unit),
                    negated |-> FALSE, context |-> clean_line,
                    span |-> Some(<<Find(text, clean_line),
                                    Find(text, clean_line) + Len(clean_line)>>) ])

RECURSIVE LabsOfLines(_, _)
LabsOfLines(text, lines) ==
    IF lines = <<>> THEN <<>>
    ELSE LabOfLine(text, Head(lines)) \o LabsOfLines(text, Tail(lines))

extract_labs_robust(text) == LabsOfLines(text, SplitLines(text))
(***************************************************************************)
(* Agent extractor (agents/clinical_nlp_agent.py): the keyword matcher,    *)
(* the structured lab matcher and extract_entities                         *)
(***************************************************************************)
\* the vocabulary of _extract_symptoms
symptoms ==
    << <<"c","h","e","s","t"," ","p","a","i","n">>,
      <<"s","h","o","r","t","n","e","s","s"," ","o","f"," ","b","r","e","a","t","h">>,
      <<"f","e","v","e","r">>, <<"f","a","t","i","g","u","e">>,
      <<"w","e","i","g","h","t"," ","l","o","s","s">>,
      <<"c","o","u","g","h">>, <<"h","e","a","d","a","c","h","e">>,
      <<"p","a","l","p","i","t","a","t","i","o","n","s">>,
      <<"n","a","u","s","e","a">>, <<"v","o","m","i","t","i","n","g">>,
      <<"d","i","z","z","i","n","e","s","s">> >>

\* the vocabulary of _extract_conditions
conditions ==
    << <<"d","i","a","b","e","t","e","s">>,
      <<"h","y","p","e","r","t","e","n","s","i","o","n">>,
      <<"t","u","b","e","r","c","u","l","o","s","i","s">>,
      <<"c","a","n","c","e","r">>, <<"p","n","e","u","m","o","n","i","a">>,
      <<"a","s","t","h","m","a">>, <<"a","n","e","m","i","a">>,
      <<"m","y","o","c","a","r","d","i","a","l"," ","i","n","f","a","r","c","t","i","o","n">> >>

\* the vocabulary of _extract_medications
medications ==
    << <<"p","a","r","a","c","e","t","a","m","o","l">>,
      <<"a","s","p","i","r","i","n">>,
      <<"m","e","t","f","o","r","m","i","n">>,
      <<"i","n","s","u","l","i","n">>,
      <<"a","m","o","x","i","c","i","l","l","i","n">>,
      <<"a","t","o","r","v","a","s","t","a","t","i","n">> >>

\* the vocabulary of _extract_procedures
procedures ==
    << <<"c","t"," ","s","c","a","n">>, <<"x","-","r","a","y">>,
      <<"e","c","g">>,
      <<"e","c","h","o","c","a","r","d","i","o","g","r","a","m">>,
      <<"a","n","g","i","o","g","r","a","p","h","y">>,
      <<"b","i","o","p","s","y">> >>

\* the characters \w matches, among those of the texts drawn
WordChars == LowerLetters \cup UpperLetters \cup {Digits[i] : i \in 1..Len(Digits)} \cup {"_"}

IsWordAt(s, i) == i >= 1 /\ i <= Len(s) /\ s[i] \in WordChars

\* \b matches at offset p of s: a word character on exactly one side
WordBoundary(s, p) == IsWordAt(s, p) # IsWordAt(s, p + 1)

\* the pattern with its two \b left out: kw anywhere
KeywordAnywhereAt(lowered, kw, p) == OccursAt(lowered, kw, p)

\* \b kw \b matches at offset p of lowered
KeywordAt(lowered, kw, p) ==
    /\ OccursAt(lowered, kw, p)
    /\ WordBoundary(lowered, p)
    /\ WordBoundary(lowered, p + Len(kw))

\* the starts re.finditer yields, given the offsets where the pattern
\* matches and the length of the match at each: the least offset not before
\* pos, then those after the end of that match
RECURSIVE FinditerStarts(_, _, _)
FinditerStarts(hits, len, pos) ==
    LET rest == {p \in hits : p >= pos}
    IN  IF rest = {} THEN <<>>
        ELSE LET p == CHOOSE q \in rest : \A r \in rest : q <= r
             IN  <<p>> \o FinditerStarts(hits, len, p + len[p])

\* text[max(0, start - 40):min(len(text), end + 40)]
ContextOf(text, start, end) ==
    Slice(text, Max(0, start - 40), Min(Len(text), end + 40))

\* the offsets of lowered where \b kw \b matches
KeywordHits(lowered, kw) == {p \in 0..Len(lowered) : KeywordAt(lowered, kw, p)}

\* the dicts results.append receives for the matches of kw that start at
\* starts
KeywordEntities(text, kw, entity_type, starts) ==
    [k \in 1..Len(starts) |->
        [ entity |-> kw, type |-> entity_type,
          negated |-> _is_negated(text, starts[k]),
          context |-> ContextOf(text, starts[k], starts[k] + Len(kw)) ]]

\* the inner loop of _keyword_entity_extractor for one keyword
KeywordMatches(text, kw, entity_type) ==
    KeywordEntities(text, kw, entity_type,
        FinditerStarts(KeywordHits(Lower(text), kw), [p \in 0..Len(text) |-> Len(kw)], 0))

RECURSIVE _keyword_entity_extractor(_, _, _)
_keyword_entity_extractor(text, keywords, entity_type) ==
    IF keywords = <<>> THEN <<>>
    ELSE KeywordMatches(text, Head(keywords), entity_type)
         \o _keyword_entity_extractor(text, Tail(keywords), entity_type)

_extract_symptoms(text) == _keyword_entity_extractor(text, symptoms, "symptom")
_extract_conditions(text) == _keyword_entity_extractor(text, conditions, "condition")
_extract_medications(text) == _keyword_entity_extractor(text, medications, "medication")
_extract_procedures(text) == _keyword_entity_extractor(text, procedures, "procedure")

\* lab_patterns as the sequence of its items: the key, the alternatives of
\* group 1 (platelet[s]? as its two spellings, the longer first), whether
\* group 2 may have a decimal part, and the alternatives of group 3
lab_patterns ==
    << [ lab |-> <<"h","e","m","o","g","l","o","b","i","n">>,
         names |-> << <<"h","e","m","o","g","l","o","b","i","n">>, <<"h","b">> >>,
         decimal |-> TRUE,
         units |-> << <<"g","/","d","l">>, <<"g","m","/","d","l">> >> ],
       [ lab |-> <<"w","b","c">>,
         names |-> << <<"w","b","c">>,
                      <<"w","h","i","t","e"," ","b","l","o","o","d"," ","c","e","l","l">> >>,
         decimal |-> FALSE,
         units |-> << <<"/","m","m","3">>, <<"x","1","0","^","3">> >> ],
       [ lab |-> <<"e","s","r">>,
         names |-> << <<"e","s","r">> >>,
         decimal |-> FALSE,
         units |-> << <<"m","m","/","h","r">> >> ],
       [ lab |-> <<"p","l","a","t","e","l","e","t","s">>,
         names |-> << <<"p","l","a","t","e","l","e","t","s">>, <<"p","l","a","t","e","l","e","t">> >>,
         decimal |-> FALSE,
         units |-> << <<"/","m","m","3">>, <<"x","1","0","^","3">> >> ] >>

\* the offset after the whitespace s has from offset p on (\s*)
SkipSpaces(s, p) ==
    LET stops == {i \in (p + 1)..Len(s) : s[i] \notin Whitespace}
    IN  IF stops = {} THEN Max(p, Len(s))
        ELSE (CHOOSE i \in stops : \A j \in stops : i <= j) - 1

\* the first of the alternatives alts that occurs in lowered at offset p,
\* <<>> if none does
FirstAlternativeAt(lowered, alts, p) ==
    LET ok == SelectSeq(alts, LAMBDA a : OccursAt(lowered, a, p))
    IN  IF ok = <<>> THEN None ELSE Some(ok[1])

\* the offset after [:=]? at offset a
LabSeparatorEnd(text, a) ==
    IF a < Len(text) /\ text[a + 1] \in {":", "="} THEN a + 1 ELSE a

\* the end of group 2, which starts after offset c with d digits
LabValueEnd(text, pat, c, d) ==
    IF pat.decimal /\ c + d < Len(text) /\ text[c + d + 1] = "."
    THEN c + d + 1 + DigitRun(text, c + d + 2) ELSE c + d

\* the match whose group 2 is text[c:e] and whose group 3, unit, is looked
\* for at offset f
LabMatchOf(text, c, e, f, unit) ==
    Some([ end |-> IF unit = None THEN f ELSE f + Len(unit[1]),
           group2 |-> SubSeq(text, c + 1, e),
           group3 |-> IF unit = None THEN None
                      ELSE Some(SubSeq(text, f + 1, f + Len(unit[1]))) ])

\* group 3, looked for at offset f after the whitespace that follows group 2
LabMatchFromUnit(text, pat, c, e, f) ==
    LabMatchOf(text, c, e, f, FirstAlternativeAt(Lower(text), pat.units, f))

\* group 2 needs one digit at least
LabMatchFromValue(text, pat, c, d) ==
    IF d < 1 THEN None
    ELSE LabMatchFromUnit(text, pat, c, LabValueEnd(text, pat, c, d),
                          SkipSpaces(text, LabValueEnd(text, pat, c, d)))

\* group 2, looked for at offset c after the separator and its whitespace
LabMatchFromSeparator(text, pat, c) ==
    LabMatchFromValue(text, pat, c, DigitRun(text, c + 1))

\* the match at offset p once group 1 is known: <<>> if no alternative of
\* group 1 occurs there
LabMatchFromName(text, pat, p, name) ==
    IF name = None THEN None
    ELSE LabMatchFromSeparator(text, pat,
             SkipSpaces(text, LabSeparatorEnd(text, SkipSpaces(text, p + Len(name[1])))))

\* the match of one pattern of lab_patterns at offset p of text, under
\* re.IGNORECASE: <<>> for none, else <<[end, group2, group3]>>.  Every part
\* after group 1 takes all it can: the parts after group 2 are optional, and
\* giving back whitespace or digits never turns a failure into a match.
LabMatchAt(text, pat, p) ==
    LabMatchFromName(text, pat, p, FirstAlternativeAt(Lower(text), pat.names, p))

\* the dict results.append receives for the match m that starts at start
LabEntity(text, pat, start, m) ==
    [ entity |-> pat.lab, type |-> "lab",
      value |-> Some(m.group2), unit |-> m.group3,
      negated |-> _is_negated(text, start),
      context |-> ContextOf(text, start, m.end) ]

\* at every offset, the match of pat there: <<>> or <<[end, group2, group3]>>
LabMatchesAt(text, pat) == [p \in 0..Len(text) |-> LabMatchAt(text, pat, p)]

\* the dicts of the matches that start at starts
LabEntities(text, pat, at, starts) ==
    [k \in 1..Len(starts) |-> LabEntity(text, pat, starts[k], at[starts[k]][1])]

\* the starts of the matches re.finditer yields
LabStarts(text, at) ==
    FinditerStarts({p \in 0..Len(text) : at[p] # None},
                   [p \in 0..Len(text) |-> IF at[p] = None THEN 0 ELSE at[p][1].end - p], 0)

\* the inner loop of _extract_labs, given the match at every offset
LabMatchesOf(text, pat, at) == LabEntities(text, pat, at, LabStarts(text, at))

\* the inner loop of _extract_labs for one item of lab_patterns
LabMatches(text, pat) == LabMatchesOf(text, pat, LabMatchesAt(text, pat))

RECURSIVE LabsOfPatterns(_, _)
LabsOfPatterns(text, pats) ==
    IF pats = <<>> THEN <<>>
    ELSE LabMatches(text, Head(pats)) \o LabsOfPatterns(text, Tail(pats))

_extract_labs(text) == LabsOfPatterns(text, lab_patterns)

\* a Document: text, date (None or a string), source, and doc_type, a key
\* that may be absent
Document(text, date, source, doc_type) ==
    [text |-> text, date |-> date, source |-> source, doc_type |-> doc_type]

\* ent.get(key) for the keys value, unit and span, which not every matcher
\* writes
GetOptional(ent, key) == IF key \in DOMAIN ent THEN ent[key] ELSE None

\* the dict extract_entities appends for ent found in doc
AgentMention(ent, doc) ==
    [ entity |-> ent.entity, type |-> ent.type,
      normalized |-> _normalize(ent.entity), negated |-> ent.negated,
      value |-> GetOptional(ent, "value"), unit |-> GetOptional(ent, "unit"),
      context |-> ent.context, date |-> doc.date, source |-> doc.source ]

\* what the five extractors find in text, in the order of the loop
AgentRawEntities(text) ==
    _extract_symptoms(text) \o _extract_conditions(text) \o _extract_labs(text)
    \o _extract_medications(text) \o _extract_procedures(text)

\* the inner loops of extract_entities for doc, raw being what the five
\* extractors found in its text
AgentMentionsOf(raw, doc) == [i \in 1..Len(raw) |-> AgentMention(raw[i], doc)]

\* the loop of extract_entities from document k on
RECURSIVE AgentMentionsFrom(_, _)
AgentMentionsFrom(documents, k) ==
    IF k > Len(documents) THEN <<>>
    ELSE AgentMentionsOf(AgentRawEntities(documents[k].text), documents[k])
         \o AgentMentionsFrom(documents, k + 1)

\* the extraction that stops after the first document
agents_extract_entities_first(documents) ==
    IF documents = <<>> THEN <<>> ELSE AgentMentionsFrom(<<documents[1]>>, 1)

\* extract_entities of agents/clinical_nlp_agent.py
agents_extract_entities(documents) == AgentMentionsFrom(documents, 1)

(***************************************************************************)
(* Service extractor: extract_entities                                     *)
(***************************************************************************)
\* spacy.load("en_ner_bc5cdr_md") raises where the model package is not
\* installed, and the except branch leaves the flag False
MODEL_NER_AVAILABLE == FALSE

extract_symptoms(text) == <<>>

\* extract_clinical_entities without the model
extract_clinical_entities(text) == extract_symptoms(text)

\* build_entity, doc_type being doc["doc_type"] as extract_entities has
\* just set it
build_entity(ent, doc, doc_type, source) ==
    [ entity |-> ent.entity, type |-> ent.type,
      normalized |-> normalize(ent.entity),
      value |-> GetOptional(ent, "value"), unit |-> GetOptional(ent, "unit"),
      negated |-> ent.negated, context |-> ent.context,
      section |-> IF doc_type = "lab_report" THEN "lab_results" ELSE "clinical",
      date |-> doc.date, source |-> doc.source,
      extraction_source |-> source,
      span |-> GetOptional(ent, "span") ]

\* final_entities.append(build_entity(...)) for every entity of raw
ServiceEntities(raw, doc, doc_type, source) ==
    [i \in 1..Len(raw) |-> build_entity(raw[i], doc, doc_type, source)]

\* the branch of extract_entities on the doc_type detected
ServiceMentionsTyped(doc, doc_type) ==
    IF doc_type = "lab_report"
    THEN ServiceEntities(extract_labs_robust(doc.text), doc, doc_type, "lab_parser_regex")
    ELSE ServiceEntities(extract_clinical_entities(doc.text), doc, doc_type,
                         "clinical_nlp_spacy")

\* one pass of the loop of extract_entities: the mentions of doc
ServiceMentionsOf(doc) == ServiceMentionsTyped(doc, detect_doc_type(doc.text))

RECURSIVE services_extract_entities(_)
services_extract_entities(documents) ==
    IF documents = <<>> THEN <<>>
    ELSE ServiceMentionsOf(Head(documents))
         \o services_extract_entities(Tail(documents))

\* the documents once extract_entities has returned: doc["doc_type"] =
\* doc_type has written the detected type into every one of them
DocumentsAfterExtract(documents) ==
    [i \in 1..Len(documents) |->
        [documents[i] EXCEPT !.doc_type = Some(detect_doc_type(documents[i].text))]]
(***************************************************************************)
(* Vector store (services/upsert.py).  A dict is a function on the keys it *)
(* holds; a value is <<>> for None and <<s>> for the str s.                *)
(***************************************************************************)
\* {}
EmptyDict == [k \in {} |-> None]

\* d.get(k, default)
DictGet(d, k, default) == IF k \in DOMAIN d THEN d[k] ELSE default

\* what an f-string writes for a value: "None" for None, the str itself
FormatValue(v) == IF v = None THEN <<"N","o","n","e">> ELSE v[1]

\* what an f-string writes for a non-negative int
RECURSIVE FormatInt(_)
FormatInt(n) ==
    IF n < 10 THEN <<Digits[n + 1]>>
    ELSE FormatInt(n \div 10) \o <<Digits[(n % 10) + 1]>>

PINECONE_INDEX_URL == "PINECONE_INDEX_URL"

DefaultSource == Some(<<"d","o","c">>)
DefaultEntity == Some(<<"C","H","U","N","K">>)

\* the vector id with the position of the record left out
_build_vector_id_no_index(metadata, item, idx) ==
    ReplaceSpaces(DictGet(metadata, "source", DefaultSource)[1])
        \o <<":">> \o FormatValue(DictGet(item, "normalized", DefaultEntity))

_build_vector_id(metadata, item, idx) ==
    ReplaceSpaces(DictGet(metadata, "source", DefaultSource)[1])
        \o <<":">> \o FormatValue(DictGet(item, "normalized", DefaultEntity))
        \o <<":">> \o FormatInt(idx)

\* {k: v for k, v in meta.items() if v is not None}
DropNone(meta) == [k \in {j \in DOMAIN meta : meta[j] # None} |-> meta[k]]

VectorMetadata(metadata, item) ==
    DropNone([entity     |-> DictGet(item, "entity", None),
              normalized |-> DictGet(item, "normalized", None),
              type       |-> DictGet(item, "type", None),
              value      |-> DictGet(item, "value", None),
              unit       |-> DictGet(item, "unit", None),
              context    |-> DictGet(item, "context", None),
              source     |-> DictGet(metadata, "source", None),
              date       |-> DictGet(metadata, "date", None),
              doc_type   |-> DictGet(metadata, "doc_type", None)])

\* the dict one pass of the loop appends to vectors
VectorOf(metadata, item, idx) ==
    [id       |-> _build_vector_id(metadata, item, idx),
     values   |-> item.embedding,
     metadata |-> VectorMetadata(metadata, item)]

\* the exception one pass of the loop raises, None when it raises none:
\* source.replace on a source that is None, item["embedding"] on a record
\* without that key
ItemRaises(metadata, item) ==
    IF DictGet(metadata, "source", DefaultSource) = None THEN Some("AttributeError")
    ELSE IF "embedding" \notin DOMAIN item THEN Some("KeyError")
    ELSE None

\* how many passes of the loop complete
PassesCompleted(metadata, embeddings) ==
    IF \E i \in 1..Len(embeddings) : ItemRaises(metadata, embeddings[i]) # None
    THEN (CHOOSE i \in 1..Len(embeddings) :
             /\ ItemRaises(metadata, embeddings[i]) # None
             /\ \A j \in 1..(i - 1) : ItemRaises(metadata, embeddings[j]) = None) - 1
    ELSE Len(embeddings)

\* vectors after the first n passes; enumerate counts from 0
VectorsBuilt(metadata, embeddings, n) ==
    [i \in 1..n |-> VectorOf(metadata, embeddings[i], i - 1)]

UpsertReport(vectors) ==
    [upserted_vectors |-> Len(vectors), index |-> PINECONE_INDEX_URL]

UpsertRaised(exc) == [raised |-> Some(exc), report |-> None]
UpsertReturned(report) == [raised |-> None, report |-> Some(report)]

\* the outcomes of the call once the loop has run n passes over embeddings:
\* the exception of pass n + 1, or after the last pass what index.upsert
\* does (it is called only for a non-empty vectors list and may raise)
UpsertOutcomes(metadata, embeddings, n) ==
    IF n < Len(embeddings)
    THEN {UpsertRaised(ItemRaises(metadata, embeddings[n + 1])[1])}
    ELSE {UpsertReturned(UpsertReport(VectorsBuilt(metadata, embeddings, n)))}
         \cup (IF n > 0 THEN {UpsertRaised("index.upsert")} ELSE {})
(***************************************************************************)
(* Pipeline (app/state.py, app/orchestrator.py, app/api/routes.py).  The   *)
(* services the steps call are outside the pipeline: each call either      *)
(* returns or raises, and which it does is an input of the step.  An error *)
(* message is the sequence of the parts its f-string joins.                *)
(***************************************************************************)
ClinicalState(file_paths) ==
    [file_paths             |-> file_paths,
     raw_documents          |-> <<>>,
     nlp_results            |-> <<>>,
     normalized_nlp_results |-> <<>>,
     normalized_date        |-> None,
     embedding_results      |-> <<>>,
     vector_store_results   |-> <<>>,
     reasoning_result       |-> None,
     errors                 |-> <<>>,
     current_step           |-> None]

\* add_error with the message put in front of the list
add_error_first(st, msg) == [st EXCEPT !.errors = <<msg>> \o @]

add_error(st, msg) == [st EXCEPT !.errors = Append(@, msg)]

Returned(value) == [raised |-> None, value |-> Some(value)]
Raised(exc) == [raised |-> Some(exc), value |-> None]

\* ---- step 1 ----
run_ingestion_from(st, outcome) ==
    IF outcome.raised # None
    THEN add_error(st, <<"Ingestion failed: ", outcome.raised[1]>>)
    ELSE IF outcome.value[1] = <<>>
    THEN add_error(st, <<"Ingestion produced no documents">>)
    ELSE [st EXCEPT !.raw_documents = outcome.value[1]]

run_ingestion(st, outcome) ==
    run_ingestion_from([st EXCEPT !.current_step = Some("ingestion")], outcome)

\* ---- step 2 ----
\* what extract_and_process returns for one document
NlpResult(doc) ==
    [doc_metadata |-> [source |-> doc.source, date |-> doc.date]]

\* one pass of the loop that leaves a failure unrecorded
NlpPassSilent(st, doc, outcome) ==
    IF outcome = "ok"
    THEN [st EXCEPT !.nlp_results = Append(@, NlpResult(doc))]
    ELSE st

\* one pass of the loop over raw_documents: outcome is "ok" or the call
\* that raised
NlpPass(st, doc, outcome) ==
    IF outcome = "ok"
    THEN [st EXCEPT !.nlp_results = Append(@, NlpResult(doc))]
    ELSE add_error(st, <<"NLP failed for ", doc.source, ": ", outcome>>)

RECURSIVE NlpLoop(_, _, _)
NlpLoop(st, documents, outcomes) ==
    IF documents = <<>> THEN st
    ELSE NlpLoop(NlpPass(st, Head(documents), Head(outcomes)),
                 Tail(documents), Tail(outcomes))

\* what update_dates_consistently returns when it settles on date
update_dates_consistently(item, date) ==
    [item EXCEPT !.doc_metadata.date = date]

\* how many of the calls of update_dates_consistently return before one
\* raises; norms[k] is <<date>> when call k returns and <<>> when it raises
RECURSIVE CallsReturned(_)
CallsReturned(norms) ==
    IF norms = <<>> \/ Head(norms) = None THEN 0
    ELSE 1 + CallsReturned(Tail(norms))

\* the date normalization when the first k calls return: the first call is
\* the canonical one, call i + 1 is the one for nlp_results[i]
NormalizeDates(st, norms, k) ==
    IF k = 0 THEN st
    ELSE [st EXCEPT
            !.normalized_date = norms[1],
            !.normalized_nlp_results =
                @ \o [i \in 1..(k - 1) |->
                        update_dates_consistently(st.nlp_results[i],
                                                  norms[i + 1])]]

AfterNlpLoop(st, norms) ==
    IF st.nlp_results = <<>> THEN st
    ELSE NormalizeDates(st, norms,
             CallsReturned(SubSeq(norms, 1, Len(st.nlp_results) + 1)))

run_clinical_nlp(st, outcomes, norms) ==
    IF st.raw_documents = <<>>
    THEN add_error([st EXCEPT !.current_step = Some("clinical_nlp")],
                   <<"No documents for NLP">>)
    ELSE AfterNlpLoop(NlpLoop([st EXCEPT !.current_step = Some("clinical_nlp")],
                              st.raw_documents, outcomes),
                      norms)

\* the step leaves by an exception of update_dates_consistently, which no
\* try encloses
run_clinical_nlp_raises(st, outcomes, norms) ==
    /\ st.raw_documents # <<>>
    /\ NlpLoop(st, st.raw_documents, outcomes).nlp_results # <<>>
    /\ \E k \in 1..(Len(NlpLoop(st, st.raw_documents, outcomes).nlp_results) + 1) :
          norms[k] = None

\* ---- step 3 ----
\* what embed_clinical_json returns for one normalized result
EmbeddingOutput(doc) ==
    [doc_metadata |-> doc.doc_metadata,
     embeddings   |-> <<[normalized |-> "CLINICAL_NOTE", embedding |-> <<1>>]>>]

EmbeddingPass(st, doc, outcome) ==
    IF outcome = "ok"
    THEN [st EXCEPT !.embedding_results = Append(@, EmbeddingOutput(doc))]
    ELSE add_error(st, <<"Embedding failed: ", outcome>>)

RECURSIVE EmbeddingLoop(_, _, _)
EmbeddingLoop(st, documents, outcomes) ==
    IF documents = <<>> THEN st
    ELSE EmbeddingLoop(EmbeddingPass(st, Head(documents), Head(outcomes)),
                       Tail(documents), Tail(outcomes))

run_embedding(st, outcomes) ==
    EmbeddingLoop([st EXCEPT !.current_step = Some("embedding")],
                  st.normalized_nlp_results, outcomes)

\* ---- step 4 ----
UpsertPass(st, emb, outcome) ==
    IF outcome = "ok"
    THEN [st EXCEPT !.vector_store_results =
                        Append(@, UpsertReport(emb.embeddings))]
    ELSE add_error(st, <<"Vector upsert failed: ", outcome>>)

RECURSIVE UpsertLoop(_, _, _)
UpsertLoop(st, embs, outcomes) ==
    IF embs = <<>> THEN st
    ELSE UpsertLoop(UpsertPass(st, Head(embs), Head(outcomes)),
                    Tail(embs), Tail(outcomes))

run_vector_upsert(st, outcomes) ==
    UpsertLoop([st EXCEPT !.current_step = Some("vector_store")],
               st.embedding_results, outcomes)

\* ---- step 5 ----
run_reasoning_from(st, outcome) ==
    IF st.normalized_nlp_results = <<>>
    THEN add_error(st, <<"No normalized NLP results for reasoning">>)
    ELSE IF outcome.raised # None
    THEN add_error(st, <<"Reasoning failed: ", outcome.raised[1]>>)
    ELSE [st EXCEPT !.reasoning_result = outcome.value]

run_reasoning(st, outcome) ==
    run_reasoning_from([st EXCEPT !.current_step = Some("clinical_reasoning")],
                       outcome)

\* ---- /analyze ----
\* not x, for an optional dict
Falsy(opt) == opt = None \/ DOMAIN opt[1] = {}

analyze_documents_answer(st) ==
    IF Falsy(st.reasoning_result)
    THEN [status_code |-> 500,
          detail      |-> Some("Clinical reasoning failed"),
          body        |-> None]
    ELSE [status_code |-> 200,
          detail      |-> None,
          body        |-> Some([status          |-> "success",
                                 normalized_date |-> st.normalized_date,
                                 reasoning       |-> st.reasoning_result[1],
                                 errors          |-> st.errors])]
(***************************************************************************)
(* Calls of _is_negated.  A text is a head piece, a run of filler          *)
(* characters and a tail piece, so that a cue can lie inside the window,   *)
(* across either of its ends, or wholly outside it.                        *)
(***************************************************************************)
MaxPad == 41

Pieces ==
    { <<>>,
      <<"n","o">>,
      <<"N","o","T">>,
      <<"o","n">>,
      <<"D","e","n","i","e","s"," ">>,
      <<"f","r","e","e"," ","O","F">>,
      <<"f","r","e","e","o","f">> }

Texts ==
    { head \o Rep("x", k) \o tail :
        head \in Pieces, k \in 0..MaxPad, tail \in Pieces }

NegIdle == nText = <<>> /\ nStart = 0 /\ nResult = None
NormIdle == zInput = <<>> /\ zAgent = None /\ zService = None
TlIdle == entities = <<>> /\ timeline = None
RagIdle == ragEntities = <<>> /\ ragChunks = None
ExIdle == docs = <<>> /\ aOut = None /\ sOut = None
SvcIdle == sText = <<>> /\ sDocType = None /\ sLabs = None
RepIdle == callLog = <<>>
OrchIdle == state = <<>> /\ pc = "idle" /\ response = None
UpIdle == uInput = <<>> /\ uVectors = <<>> /\ uResult = None

NegInit ==
    /\ nText \in Texts
    /\ nStart = 0
    /\ nResult = None
    /\ NormIdle /\ TlIdle /\ RagIdle /\ ExIdle /\ SvcIdle
    /\ RepIdle /\ OrchIdle /\ UpIdle

\* the start offsets passed: every offset of the text, a few negative ones,
\* and offsets around the first one whose window lies past the end of the text
MaxBack == 2

StartInputs(text) ==
    ((0 - MaxBack)..Len(text))
    \cup {Len(text) + NegationWindow + d : d \in {-1, 0, 1}}
IsNegatedCall ==
    /\ nResult = None
    /\ \E start \in StartInputs(nText) :
         /\ nStart' = start
         /\ nResult' = Some(_is_negated(nText, start))
    /\ UNCHANGED <<nText, normVars, tlVars, ragVars, exVars, svcVars,
                 repVars, orchVars, upVars>>

NegNext == IsNegatedCall

SpecNeg == NegInit /\ [][NegNext]_vars

(***************************************************************************)
(* Calls of build_timeline.  The mention lists come in four families, each *)
(* varying the fields one part of the builder reads: the dates, the        *)
(* negation flags, the types and the lab values.                           *)
(***************************************************************************)
MaxMentions == 3

d_2024_06_01 == <<"2","0","2","4","-","0","6","-","0","1">>
d_2024_6_1 == <<"2","0","2","4","-","6","-","1">>
d_2024_08_01 == <<"2","0","2","4","-","0","8","-","0","1">>
d_2023_12_31 == <<"2","0","2","3","-","1","2","-","3","1">>
d_2024_06_31 == <<"2","0","2","4","-","0","6","-","3","1">>

\* a missing date, an empty one, a day June does not have, and four dates
\* of which two are the same day written differently
DateInputs ==
    { None, Some(<<>>), Some(d_2024_06_31), Some(d_2024_06_01),
      Some(d_2024_6_1), Some(d_2024_08_01), Some(d_2023_12_31) }

TwoDates == {Some(d_2024_06_01), Some(d_2024_08_01)}

ctx == <<"c">>

visit_txt == <<"v","i","s","i","t",".","t","x","t">>

lab_txt == <<"l","a","b",".","t","x","t">>

DateFamily ==
    { Mention("FEVER", "symptom", FALSE, None, d, ctx, visit_txt, None) :
        d \in DateInputs }

NegationFamily ==
    { Mention("FEVER", "symptom", neg, None, d, ctx, visit_txt, None) :
        neg \in BOOLEAN, d \in TwoDates \cup {None} }
    \cup { Mention("COUGH", "symptom", neg, None, Some(d_2024_06_01),
                   ctx, visit_txt, None) : neg \in BOOLEAN }

TypeFamily ==
    { Mention("ANEMIA", t, FALSE, None, Some(d_2024_06_01), ctx, visit_txt, None) :
        t \in {"symptom", "condition", "lab", "medication", "procedure"} }
    \cup { Mention("ANEMIA", t, FALSE, None, Some(d_2024_08_01), ctx, visit_txt, None) :
        t \in {"symptom", "lab", "medication"} }
    \cup { Mention("FEVER", "symptom", FALSE, None, Some(d_2024_06_01),
                   ctx, visit_txt, None) }

ValueInputs ==
    { None, Some(<<"a","b","c">>), Some(<<"n","a","n">>),
      Some(<<"1","2",".","0">>), Some(<<"1","2">>), Some(<<"1","0",".","2">>) }

LaterValueInputs ==
    { Some(<<"a","b","c">>), Some(<<"1","2",".","0">>), Some(<<"1","0",".","2">>) }

LabFamily ==
    { Mention("HEMOGLOBIN", "lab", FALSE, v, Some(d_2024_06_01), ctx, lab_txt, None) :
        v \in ValueInputs }
    \cup { Mention("HEMOGLOBIN", "lab", FALSE, v, Some(d_2024_08_01), ctx, lab_txt, None) :
        v \in LaterValueInputs }
    \cup { Mention("HEMOGLOBIN", "symptom", FALSE, None, Some(d_2024_06_01),
                   ctx, lab_txt, None),
           Mention("HEMOGLOBIN", "lab", TRUE, Some(<<"a","b","c">>), None,
                   ctx, lab_txt, None) }

ListsOver(S, maxLen) == UNION { [1..n -> S] : n \in 0..maxLen }

TimelineInputs ==
    ListsOver(DateFamily, MaxMentions) \cup ListsOver(NegationFamily, MaxMentions)
    \cup ListsOver(TypeFamily, MaxMentions) \cup ListsOver(LabFamily, MaxMentions)

TlInit ==
    /\ entities \in TimelineInputs
    /\ timeline = None
    /\ NegIdle /\ NormIdle /\ RagIdle /\ ExIdle /\ SvcIdle
    /\ RepIdle /\ OrchIdle /\ UpIdle

\* the caller's list once build_timeline has returned, had the ordering
\* been done with list.sort() on the argument
EntitiesAfterSort(ents) == _order_by_time(ents)

\* the caller's list once build_timeline has returned: sorted() builds a
\* new list, the grouping and the detectors only read, so the argument and
\* its mentions are as they were
EntitiesAfterBuild(ents) == ents

BuildTimelineCall ==
    /\ timeline = None
    /\ timeline' = Some(build_timeline(entities))
    /\ entities' = EntitiesAfterBuild(entities)
    /\ UNCHANGED <<negVars, normVars, ragVars, exVars, svcVars,
                 repVars, orchVars, upVars>>

TlNext == BuildTimelineCall

SpecTimeline == TlInit /\ [][TlNext]_vars

(***************************************************************************)
(* Calls of prepare_rag_chunks.  The mention lists come in families: one   *)
(* varies the grouping key and the type, one the context among short       *)
(* strings (empty, blank, equal up to whitespace or case, one inside       *)
(* another), one among strings long enough to reach MAX_CHARS.             *)
(***************************************************************************)
MaxRagMentions == 3
MaxLongMentions == 2

er_note == <<"e","r",".","t","x","t">>
lab_note == <<"l","a","b",".","t","x","t">>
labs_section == <<"l","a","b","s">>

\* five keys, the last four each differing from the first in one field (the
\* second only in spelling out the default section)
KeyInputs ==
    { <<er_note, Some(d_2024_06_01), None>>,
      <<er_note, Some(d_2024_06_01), Some(unspecified)>>,
      <<er_note, Some(d_2024_06_01), Some(labs_section)>>,
      <<er_note, None, None>>,
      <<lab_note, Some(d_2024_06_01), None>> }

c_ab_cd == <<"a","b"," ","c","d">>

\* a symptom under each key, and a lab under the first three
KeyFamily ==
    { Mention("CHEST_PAIN", "symptom", FALSE, None, k[2], c_ab_cd, k[1], k[3]) :
        k \in KeyInputs }
    \cup { Mention("HEMOGLOBIN", "lab", FALSE, None, k[2], c_ab_cd, k[1], k[3]) :
        k \in { <<er_note, Some(d_2024_06_01), None>>,
                <<er_note, Some(d_2024_06_01), Some(unspecified)>>,
                <<er_note, Some(d_2024_06_01), Some(labs_section)>> } }

ShortContexts ==
    { <<>>, <<" ", "\n">>, c_ab_cd, <<"a","b"," "," ","c","d"," ">>,
      <<"A","b"," ","c","d">>, <<"c","d">> }

ShortContextFamily ==
    { Mention("FEVER", "symptom", FALSE, None, Some(d_2024_06_01), c, er_note, None) :
        c \in ShortContexts }

\* with the newline between them the first two fill MAX_CHARS exactly, the
\* first and the third exceed it by one, and the fourth exceeds it alone
LongContexts ==
    { Rep("x", MAX_CHARS - 800), Rep("y", 799), Rep("y", 800),
      Rep("z", MAX_CHARS + 1) }

LongContextFamily ==
    { Mention("FEVER", "symptom", FALSE, None, Some(d_2024_06_01), c, er_note, None) :
        c \in LongContexts }

g_dl == <<"g","/","d","l">>

\* mentions of one group, negated and not, under the same id and under
\* different ones; labs with and without value and unit; and a negated lab
\* of another group
MetadataFamily ==
    { Mention("FEVER", "symptom", FALSE, None, Some(d_2024_06_01), c_ab_cd, er_note, None),
      Mention("FEVER", "symptom", TRUE, None, Some(d_2024_06_01), <<"c","d">>, er_note, None),
      Mention("COUGH", "symptom", TRUE, None, Some(d_2024_06_01), c_ab_cd, er_note, None),
      [Mention("HEMOGLOBIN", "lab", FALSE, Some(<<"1","2",".","0">>), Some(d_2024_06_01),
               c_ab_cd, er_note, None) EXCEPT !.unit = Some(g_dl)],
      Mention("HEMOGLOBIN", "lab", FALSE, None, Some(d_2024_06_01), <<"c","d">>,
              er_note, None),
      Mention("WBC", "lab", TRUE, Some(<<"9">>), Some(d_2024_06_01), c_ab_cd,
              lab_note, None) }

fever == <<"f","e","v","e","r">>
cough == <<"c","o","u","g","h">>
nausea == <<"n","a","u","s","e","a">>

\* a normalized id with the term the extractor finds it by
FEVER_term == [id |-> "FEVER", term |-> fever]
COUGH_term == [id |-> "COUGH", term |-> cough]
NAUSEA_term == [id |-> "NAUSEA", term |-> nausea]

\* notes in which the terms lie in the order fever, cough, nausea: the terms
\* next to each other; far enough apart for their 40-character windows to
\* differ, at the start of the note and 40 characters into it; and three
\* terms of which each window overlaps the next
WindowNotes ==
    { [ text |-> fever \o <<" ">> \o cough, terms |-> <<FEVER_term, COUGH_term>> ],
      [ text |-> fever \o Rep(".", NegationWindow + 1) \o cough,
        terms |-> <<FEVER_term, COUGH_term>> ],
      [ text |-> Rep(".", NegationWindow) \o fever \o <<" ">> \o cough,
        terms |-> <<FEVER_term, COUGH_term>> ],
      [ text |-> fever \o Rep(".", NegationWindow - 4) \o cough \o Rep(".", 10) \o nausea,
        terms |-> <<FEVER_term, COUGH_term, NAUSEA_term>> ] }

\* the mentions of the terms of a note, in the order in which the terms
\* occur in it, each with the context the agent extractor cuts around it
WindowMentions(note) ==
    [i \in 1..Len(note.terms) |->
        Mention(note.terms[i].id, "symptom", FALSE, None, Some(d_2024_06_01),
                ContextOf(note.text, Find(note.text, note.terms[i].term),
                          Find(note.text, note.terms[i].term) + Len(note.terms[i].term)),
                er_note, None)]

WindowInputs == {WindowMentions(note) : note \in WindowNotes}

RagInputs ==
    ListsOver(KeyFamily, MaxRagMentions)
    \cup ListsOver(MetadataFamily, MaxRagMentions)
    \cup WindowInputs
    \cup ListsOver(ShortContextFamily, MaxRagMentions)
    \cup ListsOver(LongContextFamily, MaxLongMentions)

\* the first 8 hex characters of a uuid4, of which two are drawn
HexInputs == {<<"0","0","0","0","0","0","0","a">>, <<"0","0","0","0","0","0","0","b">>}

DocTypes == {"clinical_note", "lab_report"}

RagInit ==
    /\ ragEntities \in RagInputs
    /\ ragChunks = None
    /\ NegIdle /\ NormIdle /\ TlIdle /\ ExIdle /\ SvcIdle
    /\ RepIdle /\ OrchIdle /\ UpIdle

PrepareRagChunksCall ==
    /\ ragChunks = None
    /\ \E doc_type \in DocTypes :
        \E hexes \in [1..Len(_group_entities(ragEntities)) -> HexInputs] :
            ragChunks' = Some(prepare_rag_chunks(ragEntities, doc_type, hexes))
    /\ UNCHANGED <<ragEntities, negVars, normVars, tlVars, exVars, svcVars,
                 repVars, orchVars, upVars>>

RagNext == PrepareRagChunksCall

SpecRag == RagInit /\ [][RagNext]_vars

(***************************************************************************)
(* Calls of the two normalizers, each applied once and then again to its   *)
(* own result.                                                             *)
(***************************************************************************)
MaxNormLen == 4

NormAlphabet == {"a", "B", " ", "\t", "_"}

chest_pain == <<"c","h","e","s","t"," ","p","a","i","n">>

NormInputs ==
    {chest_pain} \cup
    UNION { [1..n -> NormAlphabet] : n \in 0..MaxNormLen }

NormInit ==
    /\ zInput \in NormInputs
    /\ zAgent = None
    /\ zService = None
    /\ NegIdle /\ TlIdle /\ RagIdle /\ ExIdle /\ SvcIdle
    /\ RepIdle /\ OrchIdle /\ UpIdle

AgentNormalizeCall ==
    /\ zAgent = None
    /\ zAgent' = <<_normalize(zInput), _normalize(_normalize(zInput))>>
    /\ UNCHANGED <<zInput, zService, negVars, tlVars, ragVars, exVars, svcVars,
                 repVars, orchVars, upVars>>

ServiceNormalizeCall ==
    /\ zService = None
    /\ zService' = <<normalize(zInput), normalize(normalize(zInput))>>
    /\ UNCHANGED <<zInput, zAgent, negVars, tlVars, ragVars, exVars, svcVars,
                 repVars, orchVars, upVars>>

NormNext == AgentNormalizeCall \/ ServiceNormalizeCall

SpecNorm == NormInit /\ [][NormNext]_vars

(***************************************************************************)
(* The two consumers of one mention list: build_timeline and               *)
(* prepare_rag_chunks are each called once, in either order, on the same   *)
(* list of mentions.                                                       *)
(***************************************************************************)
MaxSharedMentions == 3

\* mentions out of date order, with and without a section, one lab with a
\* number and one without
SharedFamily ==
    { Mention("FEVER", "symptom", FALSE, None, Some(d_2024_08_01), c_ab_cd,
              er_note, None),
      Mention("FEVER", "symptom", TRUE, None, Some(d_2024_06_01), <<"c","d">>,
              er_note, None),
      Mention("HEMOGLOBIN", "lab", FALSE, Some(<<"1","2",".","0">>), None,
              c_ab_cd, lab_note, Some(labs_section)),
      Mention("HEMOGLOBIN", "lab", FALSE, Some(<<"a","b","c">>),
              Some(d_2024_06_31), ctx, lab_note, Some(labs_section)) }

SharedInputs == ListsOver(SharedFamily, MaxSharedMentions)

SharedInit ==
    /\ entities \in SharedInputs
    /\ ragEntities = entities
    /\ timeline = None
    /\ ragChunks = None
    /\ NegIdle /\ NormIdle /\ ExIdle /\ SvcIdle
    /\ RepIdle /\ OrchIdle /\ UpIdle

SharedNext == BuildTimelineCall \/ PrepareRagChunksCall

SpecShared == SharedInit /\ [][SharedNext]_vars

(***************************************************************************)
(* Repeated calls: the caller holds one list of mentions and calls         *)
(* build_timeline and prepare_rag_chunks on it, up to MaxCalls times in    *)
(* any order, keeping what each call returned.                             *)
(***************************************************************************)
MaxCalls == 3
MaxRepeatMentions == 2

\* two FEVER mentions of different dates, the later one first, and a lab of
\* another source
RepeatFamily ==
    { Mention("FEVER", "symptom", FALSE, None, Some(d_2024_08_01), c_ab_cd,
              er_note, None),
      Mention("FEVER", "symptom", TRUE, None, Some(d_2024_06_01), <<"c","d">>,
              er_note, None),
      Mention("HEMOGLOBIN", "lab", FALSE, Some(<<"1","2",".","0">>), None,
              c_ab_cd, lab_note, Some(labs_section)) }

RepeatInputs == ListsOver(RepeatFamily, MaxRepeatMentions)

RepeatInit ==
    /\ entities \in RepeatInputs
    /\ ragEntities = entities
    /\ timeline = None
    /\ ragChunks = None
    /\ callLog = <<>>
    /\ NegIdle /\ NormIdle /\ ExIdle /\ SvcIdle /\ OrchIdle /\ UpIdle

RepeatBuildTimelineCall ==
    /\ Len(callLog) < MaxCalls
    /\ timeline' = Some(build_timeline(entities))
    /\ entities' = EntitiesAfterBuild(entities)
    /\ callLog' = Append(callLog, [ call |-> "build_timeline",
                                    result |-> build_timeline(entities) ])
    /\ UNCHANGED <<ragVars, negVars, normVars, exVars, svcVars, orchVars, upVars>>

\* doc_type is left to its default
RepeatPrepareRagChunksCall ==
    /\ Len(callLog) < MaxCalls
    /\ \E hexes \in [1..Len(_group_entities(entities)) -> HexInputs] :
          /\ ragChunks' = Some(prepare_rag_chunks(entities, "clinical_note", hexes))
          /\ callLog' = Append(callLog,
                 [ call |-> "prepare_rag_chunks",
                   result |-> prepare_rag_chunks(entities, "clinical_note", hexes) ])
    /\ ragEntities' = entities
    /\ UNCHANGED <<tlVars, negVars, normVars, exVars, svcVars, orchVars, upVars>>

RepeatNext == RepeatBuildTimelineCall \/ RepeatPrepareRagChunksCall

SpecRepeat == RepeatInit /\ [][RepeatNext]_vars

(***************************************************************************)
(* Calls of upsert_embeddings.  The embedding records share a normalized   *)
(* id, hold one that is None, lack the key, or lack the embedding; the     *)
(* lists are the short ones and the ones long enough for two-digit         *)
(* positions.                                                              *)
(***************************************************************************)
MaxEmbeddings == 2
MaxLongEmbeddings == 12

EmbeddingFamily ==
    { [normalized |-> Some(<<"A">>), embedding |-> <<1>>],
      [normalized |-> Some(<<"A",":","1">>), embedding |-> <<2>>],
      [normalized |-> None, embedding |-> <<3>>],
      [embedding |-> <<4>>],
      [entity |-> Some(<<"a">>), normalized |-> Some(<<"C","H","U","N","K">>),
       type |-> Some(<<"l","a","b">>), embedding |-> <<5>>],
      [normalized |-> Some(<<"A">>)] }

EmbeddedFamily == {rec \in EmbeddingFamily : "embedding" \in DOMAIN rec}

LongEmbeddingLists ==
    { [i \in 1..n |-> IF i = 1 THEN first ELSE rest] :
        n \in 11..MaxLongEmbeddings,
        first \in EmbeddedFamily, rest \in EmbeddedFamily }

EmbeddingLists ==
    ListsOver(EmbeddingFamily, MaxEmbeddings) \cup LongEmbeddingLists

DocMetadataFamily ==
    { [source |-> Some(<<"a"," ","b",".","t","x","t">>),
       date |-> Some(<<"2","0","2","4">>), doc_type |-> None],
      [source |-> Some(<<"d","o","c">>)],
      [date |-> None],
      [source |-> None] }

UpsertInputs ==
    { [doc_metadata |-> m, embeddings |-> e] :
        m \in DocMetadataFamily, e \in EmbeddingLists }
    \cup { [embeddings |-> e] : e \in EmbeddingLists }
    \cup { [doc_metadata |-> m] : m \in DocMetadataFamily }

UpsertInit ==
    /\ uInput \in UpsertInputs
    /\ uVectors = <<>>
    /\ uResult = None
    /\ NegIdle /\ NormIdle /\ TlIdle /\ RagIdle /\ ExIdle /\ SvcIdle
    /\ RepIdle /\ OrchIdle

\* the call with the two .get defaults resolved
UpsertEmbeddingsOn(metadata, embeddings) ==
    /\ uVectors' = VectorsBuilt(metadata, embeddings,
                                PassesCompleted(metadata, embeddings))
    /\ \E outcome \in UpsertOutcomes(metadata, embeddings,
                                     PassesCompleted(metadata, embeddings)) :
           uResult' = Some(outcome)

UpsertEmbeddingsCall ==
    /\ uResult = None
    /\ UpsertEmbeddingsOn(DictGet(uInput, "doc_metadata", EmptyDict),
                          DictGet(uInput, "embeddings", <<>>))
    /\ UNCHANGED <<uInput, negVars, normVars, tlVars, ragVars, exVars,
                   svcVars, repVars, orchVars>>

UpsertNext == UpsertEmbeddingsCall

SpecUpsert == UpsertInit /\ [][UpsertNext]_vars
(***************************************************************************)
(* Runs of the pipeline behind /analyze.  A run takes up to MaxFiles       *)
(* uploaded files; ingestion raises or returns documents for some of the   *)
(* files, and every later call of a service returns or raises.             *)
(***************************************************************************)
MaxFiles == 2

FileNames == {"a.txt", "b.txt"}

FilePathLists == ListsOver(FileNames, MaxFiles) \ {<<>>}

DocumentOf(path) == [source |-> path, date |-> None]

\* the documents of the files a mask keeps, in the order of the files
RECURSIVE DocumentsKept(_, _)
DocumentsKept(paths, mask) ==
    IF paths = <<>> THEN <<>>
    ELSE (IF Head(mask) THEN <<DocumentOf(Head(paths))>> ELSE <<>>)
         \o DocumentsKept(Tail(paths), Tail(mask))

IngestOutcomes(paths) ==
    {Raised("ingest_files")}
    \cup {Returned(DocumentsKept(paths, mask)) :
             mask \in [1..Len(paths) -> BOOLEAN]}

NlpOutcomes == {"ok", "extract_and_process", "save_result_json"}
NormalizedDates == {"2024-01-01", "2024-02-01"}
NormOutcomes == {None} \cup {Some(d) : d \in NormalizedDates}
EmbeddingOutcomes == {"ok", "embed_clinical_json"}
VectorStoreOutcomes == {"ok", "upsert_embeddings"}
ReasoningOutcomes ==
    { Raised("run_clinical_reasoning"), Raised("json.load"),
      Returned([assessment |-> "stable"]), Returned(EmptyDict) }

OrchInit ==
    /\ \E paths \in FilePathLists : state = ClinicalState(paths)
    /\ pc = "run_ingestion"
    /\ response = None
    /\ NegIdle /\ NormIdle /\ TlIdle /\ RagIdle /\ ExIdle /\ SvcIdle
    /\ RepIdle /\ UpIdle

OrchOthers ==
    <<negVars, normVars, tlVars, ragVars, exVars, svcVars, repVars, upVars>>

RunIngestion ==
    /\ pc = "run_ingestion"
    /\ \E outcome \in IngestOutcomes(state.file_paths) :
           state' = run_ingestion(state, outcome)
    /\ pc' = "run_clinical_nlp"
    /\ UNCHANGED <<response, OrchOthers>>

RunClinicalNlp ==
    /\ pc = "run_clinical_nlp"
    /\ \E outcomes \in [1..Len(state.raw_documents) -> NlpOutcomes],
          norms \in [1..(Len(state.raw_documents) + 1) -> NormOutcomes] :
           /\ state' = run_clinical_nlp(state, outcomes, norms)
           /\ pc' = IF run_clinical_nlp_raises(state, outcomes, norms)
                    THEN "raised" ELSE "run_embedding"
    /\ UNCHANGED <<response, OrchOthers>>

RunEmbedding ==
    /\ pc = "run_embedding"
    /\ \E outcomes \in [1..Len(state.normalized_nlp_results) -> EmbeddingOutcomes] :
           state' = run_embedding(state, outcomes)
    /\ pc' = "run_vector_upsert"
    /\ UNCHANGED <<response, OrchOthers>>

RunVectorUpsert ==
    /\ pc = "run_vector_upsert"
    /\ \E outcomes \in [1..Len(state.embedding_results) -> VectorStoreOutcomes] :
           state' = run_vector_upsert(state, outcomes)
    /\ pc' = "run_reasoning"
    /\ UNCHANGED <<response, OrchOthers>>

RunReasoning ==
    /\ pc = "run_reasoning"
    /\ \E outcome \in ReasoningOutcomes :
           state' = run_reasoning(state, outcome)
    /\ pc' = "respond"
    /\ UNCHANGED <<response, OrchOthers>>

AnalyzeRespond ==
    /\ pc = "respond"
    /\ response' = Some(analyze_documents_answer(state))
    /\ pc' = "done"
    /\ UNCHANGED <<state, OrchOthers>>

OrchNext ==
    \/ RunIngestion
    \/ RunClinicalNlp
    \/ RunEmbedding
    \/ RunVectorUpsert
    \/ RunReasoning
    \/ AnalyzeRespond

SpecOrch == OrchInit /\ [][OrchNext]_vars
(***************************************************************************)
(* Calls of detect_doc_type and extract_labs_robust.  A text is up to      *)
(* MaxLines lines: marker terms for the type detection, report lines for   *)
(* the lab parser.                                                         *)
(***************************************************************************)
MaxLines == 3

\* marker terms, one in two spellings, one that is no marker
MarkerLines ==
    { <<"s","e","r","u","m">>, <<"S","e","r","u","m">>,
      <<"s","g","o","t">>, <<"u","n","i","t">>,
      <<"o","b","s","e","r","v","e","d"," ","v","a","l","u","e">>,
      <<"l","f","t">>, <<"x">> }

\* two lines with a unit after the value, one without, and one line for
\* each way a line is skipped
ReportLines ==
    { <<"N","A","M","E"," ","7",".","7","9"," ","m","g","d","l">>,
      <<"A","L","T"," ","3","0"," ","u","/","1">>,
      <<" "," ","G","L","U","C"," ","5"," ">>,
      <<"a","b"," ","1","2"," ","m","g">>,
      <<"H","b","1"," ","1","2"," ","g">>,
      <<"n","o","t","e"," ","1","2"," ","m","g">>, <<"a","b"," ","1">>,
      <<"S","G","O","T"," ","h","i","g","h">>,
      <<"1","6","2"," ","H"," ","W","A","L">>,
      <<"a","b","c"," ","1","2","3","4","5"," ","x">> }

ServiceTexts ==
    { JoinLines(ls) : ls \in ListsOver(MarkerLines, MaxLines) }
    \cup { JoinLines(ls) : ls \in ListsOver(ReportLines, MaxLines) }

ServiceInit ==
    /\ sText \in ServiceTexts
    /\ sDocType = None
    /\ sLabs = None
    /\ NegIdle /\ NormIdle /\ TlIdle /\ RagIdle /\ ExIdle
    /\ RepIdle /\ OrchIdle /\ UpIdle

DetectDocTypeCall ==
    /\ sDocType = None
    /\ sDocType' = Some(detect_doc_type(sText))
    /\ UNCHANGED <<sText, sLabs, negVars, normVars, tlVars, ragVars, exVars,
                 repVars, orchVars, upVars>>

ExtractLabsRobustCall ==
    /\ sLabs = None
    /\ sLabs' = Some(extract_labs_robust(sText))
    /\ UNCHANGED <<sText, sDocType, negVars, normVars, tlVars, ragVars, exVars,
                 repVars, orchVars, upVars>>

ServiceNext == DetectDocTypeCall \/ ExtractLabsRobustCall

SpecService == ServiceInit /\ [][ServiceNext]_vars

(***************************************************************************)
(* Calls of the two extract_entities.  The document lists are the lists of *)
(* one note, whose text is a vocabulary term between a prefix and a        *)
(* suffix or a lab phrase, and the lists of up to MaxDocs documents that   *)
(* differ in text, date, source and doc_type.                              *)
(***************************************************************************)
MaxDocs == 2

\* what precedes the term: nothing, a cue, a word character, a hyphen, and a
\* cue just inside and just outside the 40 characters before the term
TermPrefixes ==
    { <<>>, <<"n","o"," ">>, <<"D","e","n","i","e","s"," ">>, <<"x">>, <<"_">>, <<"-">>,
      <<"n","o">> \o Rep(".", NegationWindow - 2),
      <<"n","o">> \o Rep(".", NegationWindow - 1) }

TermInputs ==
    { <<"f","e","v","e","r">>, <<"F","e","v","e","r">>,
      <<"c","h","e","s","t"," ","p","a","i","n">>,
      <<"c","h","e","s","t"," "," ","p","a","i","n">>,
      <<"c","o","u","g","h">>, <<"x","-","r","a","y">>, <<"e","c","g">>,
      <<"a","s","t","h","m","a">>, <<"a","s","p","i","r","i","n">> }

TermSuffixes ==
    { <<>>, <<" ">>, <<"s">>, <<"2">>, <<".">>,
      <<" ","f","e","v","e","r">>,
      <<" ","a","n","d"," ","n","o"," ","c","o","u","g","h">> }

LabPhrases ==
    { <<"H","e","m","o","g","l","o","b","i","n",":"," ","1","0",".","2"," ","g","/","d","L">>,
      <<"h","b"," ","1","2">>,
      <<"H","B","=","9","."," ","G","M","/","D","L">>,
      <<"n","o"," ","h","b"," ","5"," ","g","m","/","d","l">>,
      <<"W","B","C"," ","="," ","1","2","0","0","0"," ","/","m","m","3">>,
      <<"w","b","c"," ","5"," ","x","1","0","^","3">>,
      <<"E","S","R",":"," ","4","5"," ","m","m","/","h","r">>,
      <<"p","l","a","t","e","l","e","t","s"," ","1","5","0">>,
      <<"p","l","a","t","e","l","e","t",":"," ","9","0"," ","/","m","m","3">>,
      <<"h","b"," ","x">>, <<"h","b","1","2","h","b","1","3">>,
      <<"d","a","s","h","b","o","a","r","d"," ","5">> }

NoteTexts ==
    { pre \o term \o suf :
        pre \in TermPrefixes, term \in TermInputs, suf \in TermSuffixes }
    \cup LabPhrases

lab_report_txt ==
    <<"s","e","r","u","m"," ","s","g","o","t","\n","S","G","O","T"," ","1","6","2"," ","H","\n">>
    \o <<"H","e","m","o","g","l","o","b","i","n"," ","9",".","5"," ","g","/","d","l">>

\* documents with and without a date and a doc_type; the doc_type given is
\* the one detect_doc_type finds for the last only
DocFamily ==
    { Document(<<"n","o"," ","f","e","v","e","r">>, Some(d_2024_06_01), er_note, None),
      Document(<<"h","b"," ","1","2"," ","g","/","d","l">>, None, lab_note, Some("clinical_note")),
      Document(lab_report_txt, Some(d_2024_08_01), lab_note, None),
      Document(<<>>, Some(d_2024_06_01), er_note, Some("lab_report")),
      Document(lab_report_txt, None, er_note, Some("lab_report")) }

DocInputs ==
    { <<Document(t, Some(d_2024_06_01), er_note, None)>> : t \in NoteTexts }
    \cup ListsOver(DocFamily, MaxDocs)

ExtractInit ==
    /\ docs \in DocInputs
    /\ aOut = None
    /\ sOut = None
    /\ NegIdle /\ NormIdle /\ TlIdle /\ RagIdle /\ SvcIdle
    /\ RepIdle /\ OrchIdle /\ UpIdle

AgentExtractCall ==
    /\ aOut = None
    /\ aOut' = Some(agents_extract_entities(docs))
    /\ UNCHANGED <<docs, sOut, negVars, normVars, tlVars, ragVars, svcVars,
                 repVars, orchVars, upVars>>

ServiceExtractCall ==
    /\ sOut = None
    /\ sOut' = Some(services_extract_entities(docs))
    /\ docs' = DocumentsAfterExtract(docs)
    /\ UNCHANGED <<aOut, negVars, normVars, tlVars, ragVars, svcVars,
                 repVars, orchVars, upVars>>

ExtractNext == AgentExtractCall \/ ServiceExtractCall

SpecExtract == ExtractInit /\ [][ExtractNext]_vars

\* the cue phrases as the contract lists them
C1_Cues ==
    { <<"n","o">>, <<"n","o","t">>, <<"d","e","n","i","e","s">>,
      <<"d","e","n","i","e","d">>, <<"w","i","t","h","o","u","t">>,
      <<"a","b","s","e","n","c","e"," ","o","f">>,
      <<"n","e","g","a","t","i","v","e"," ","f","o","r">>,
      <<"f","r","e","e"," ","o","f">> }

\* cue occupies offsets p .. p+len(cue)-1 of the lower-cased text
C1_CueAt(cue, p) ==
    /\ p + Len(cue) <= Len(nText)
    /\ \A k \in 1..Len(cue) : LowerChar(nText[p + k]) = cue[k]

\* C1: for a start offset in 0..len(text), _is_negated returns true iff some
\* cue phrase lies, in the lower-cased text, wholly inside the 40 characters
\* that end at the offset: it begins at or after max(0, offset-40) and ends at
\* or before the offset.  A cue at or after the offset, or one beginning more
\* than 40 characters before it, does not count.
C1_NegationWindow ==
    (nResult # None /\ nStart \in 0..Len(nText)) =>
        (nResult[1] <=>
            \E cue \in C1_Cues : \E p \in 0..Len(nText) :
                /\ p >= Max(0, nStart - 40)
                /\ p + Len(cue) <= nStart
                /\ C1_CueAt(cue, p))

\* C1 witness: the text is longer than the window, its only cue opens the
\* text, and the call at offset 40 (the cue is the first character of the
\* window) returned true
C1_Witness ==
    /\ nResult = Some(TRUE)
    /\ nStart = 40
    /\ Len(nText) > 41
    /\ \E cue \in C1_Cues : C1_CueAt(cue, 0)
    /\ \A cue \in C1_Cues : \A p \in 1..Len(nText) : ~C1_CueAt(cue, p)

(***************************************************************************)
(* Timeline builder: properties                                            *)
(***************************************************************************)
\* the date of mention e parses as a YYYY-MM-DD date
HasDate(e) == e.date # None /\ Strptime(e.date[1]) # None

DateOf(e) == Strptime(e.date[1])[1]

\* mentions a and b have equal parsed dates, or both have none
SameDate(a, b) ==
    \/ ~HasDate(a) /\ ~HasDate(b)
    \/ HasDate(a) /\ HasDate(b) /\ DateOf(a) = DateOf(b)

\* the normalized ids among the mentions passed in
InputIds == {entities[i].normalized : i \in 1..Len(entities)}

\* the mentions of id n, in the order of the returned timeline
TimelineOf(n) == SelectSeq(timeline[1].timeline, LAMBDA e : e.normalized = n)

\* the returned progressions / conflicts of id n
ProgressionsFor(n) == SelectSeq(timeline[1].progressions, LAMBDA r : r.entity = n)
ConflictsFor(n) == SelectSeq(timeline[1].conflicts, LAMBDA r : r.entity = n)

\* C2: the returned timeline is a permutation of the input mentions, sorted
\* by parsed date ascending, with every mention whose date is missing or
\* unparsable after every mention with a parsable date, and with mentions
\* of equal date (or both unknown) in their input order.
C2_TimelineOrder ==
    timeline # None =>
        LET out == timeline[1].timeline
            n == Len(entities)
        IN  /\ Len(out) = n
            /\ \E p \in Permutations(1..n) :
                 /\ \A i \in 1..n : out[i] = entities[p[i]]
                 /\ \A i, j \in 1..n :
                      (i < j /\ SameDate(out[i], out[j])) => p[i] < p[j]
            /\ \A i, j \in 1..n :
                 i < j =>
                    /\ HasDate(out[j]) => HasDate(out[i])
                    /\ (HasDate(out[i]) /\ HasDate(out[j])) =>
                          DateOf(out[i]) <= DateOf(out[j])

\* C2 witness: the dates 2024-08-01, none, 2024-06-01 came back as
\* 2024-06-01, 2024-08-01, none
C2_Witness ==
    /\ timeline # None
    /\ EventDates(entities) = <<Some(d_2024_08_01), None, Some(d_2024_06_01)>>
    /\ EventDates(timeline[1].timeline)
         = <<Some(d_2024_06_01), Some(d_2024_08_01), None>>

\* C3: an entity gets exactly one negation_conflict record if its mentions
\* carry both negated values and none if they all carry the same one; the
\* record lists one event (date, negated, context, source) per mention of
\* the entity, in timeline order; no record names any other entity.
C3_Conflicts ==
    timeline # None =>
        /\ \A n \in InputIds :
             LET events == TimelineOf(n)
                 mixed == \E i, j \in 1..Len(events) :
                              events[i].negated # events[j].negated
             IN  IF mixed
                 THEN /\ Len(ConflictsFor(n)) = 1
                      /\ ConflictsFor(n)[1].issue = "negation_conflict"
                      /\ ConflictsFor(n)[1].events =
                           [i \in 1..Len(events) |->
                              [ date |-> events[i].date,
                                negated |-> events[i].negated,
                                context |-> events[i].context,
                                source |-> events[i].source ]]
                 ELSE ConflictsFor(n) = <<>>
        /\ \A k \in 1..Len(timeline[1].conflicts) :
             timeline[1].conflicts[k].entity \in InputIds

\* C3 witness: FEVER affirmed on the later date was passed in before FEVER
\* negated on the earlier one; the one conflict lists the negated event
\* first; COUGH, passed in as well, has none
C3_Witness ==
    /\ timeline # None
    /\ Len(entities) = 3
    /\ entities[1].normalized = "FEVER" /\ ~entities[1].negated
    /\ entities[1].date = Some(d_2024_08_01)
    /\ entities[2].normalized = "FEVER" /\ entities[2].negated
    /\ entities[2].date = Some(d_2024_06_01)
    /\ entities[3].normalized = "COUGH"
    /\ Len(timeline[1].conflicts) = 1
    /\ timeline[1].conflicts[1].entity = "FEVER"
    /\ Len(timeline[1].conflicts[1].events) = 2
    /\ timeline[1].conflicts[1].events[1].negated
    /\ ~timeline[1].conflicts[1].events[2].negated

\* the floats of the values that parse, among the mentions of id n, in
\* timeline order
ParsedValuesOf(n) ==
    LET ok == SelectSeq(TimelineOf(n), LAMBDA e : ParseFloat(e) # None)
    IN  [i \in 1..Len(ok) |-> ParseFloat(ok[i])[1]]

\* C4: for an entity with at least 2 mentions whose first mention in the
\* timeline has type lab: if at least 2 values parse, exactly one
\* progression is emitted, its values are all the parsed values in timeline
\* order, and its pattern is increasing when the last parsed value is
\* greater than the first, decreasing when it is less and stable when they
\* are equal, whatever lies between; if fewer than 2 parse, none is emitted.
C4_LabTrend ==
    timeline # None =>
        \A n \in InputIds :
            (Len(TimelineOf(n)) >= 2 /\ TimelineOf(n)[1].type = "lab") =>
                LET vals == ParsedValuesOf(n)
                    first == vals[1]
                    last == vals[Len(vals)]
                IN  IF Len(vals) >= 2
                    THEN /\ Len(ProgressionsFor(n)) = 1
                         /\ ProgressionsFor(n)[1].type = "lab"
                         /\ ProgressionsFor(n)[1].values = vals
                         /\ ProgressionsFor(n)[1].pattern
                              \in {"increasing", "decreasing", "stable"}
                         /\ FloatGt(last, first) =>
                              ProgressionsFor(n)[1].pattern = "increasing"
                         /\ FloatLt(last, first) =>
                              ProgressionsFor(n)[1].pattern = "decreasing"
                         /\ last = first =>
                              ProgressionsFor(n)[1].pattern = "stable"
                    ELSE ProgressionsFor(n) = <<>>

\* C4 witness: hemoglobin 12.0, then a lower value, then 12 again in the
\* timeline: the trend is stable although the values moved in between
C4_Witness ==
    /\ timeline # None
    /\ Len(timeline[1].timeline) = 3
    /\ \A i \in 1..3 : timeline[1].timeline[i].type = "lab"
    /\ timeline[1].timeline[1].value = Some(<<"1","2",".","0">>)
    /\ timeline[1].timeline[2].value = Some(<<"1","0",".","2">>)
    /\ timeline[1].timeline[3].value = Some(<<"1","2">>)
    /\ Len(timeline[1].progressions) = 1
    /\ timeline[1].progressions[1].pattern = "stable"
    /\ Len(timeline[1].progressions[1].values) = 3

\* C5: an entity with at least 2 mentions whose first mention in the
\* timeline has type symptom or condition gets a progression with pattern
\* recurrent, occurrences the number of its mentions and dates the dates of
\* all of them in timeline order, also when later mentions have another
\* type; an entity with a single mention gets no progression.
C5_Recurrent ==
    timeline # None =>
        \A n \in InputIds :
            LET events == TimelineOf(n)
            IN  /\ (Len(events) >= 2
                    /\ events[1].type \in {"symptom", "condition"}) =>
                       \E k \in 1..Len(ProgressionsFor(n)) :
                          /\ ProgressionsFor(n)[k].pattern = "recurrent"
                          /\ ProgressionsFor(n)[k].type = events[1].type
                          /\ ProgressionsFor(n)[k].occurrences = Len(events)
                          /\ ProgressionsFor(n)[k].dates = EventDates(events)
                /\ Len(events) = 1 => ProgressionsFor(n) = <<>>

\* C5 witness: ANEMIA is a condition on the earlier date and a lab on the
\* later one, passed in the other way round, and is reported recurrent
\* with 2 occurrences; FEVER, mentioned once, has no progression
C5_Witness ==
    /\ timeline # None
    /\ Len(entities) = 3
    /\ entities[1].normalized = "ANEMIA" /\ entities[1].type = "lab"
    /\ entities[1].date = Some(d_2024_08_01)
    /\ entities[2].normalized = "ANEMIA" /\ entities[2].type = "condition"
    /\ entities[2].date = Some(d_2024_06_01)
    /\ entities[3].normalized = "FEVER"
    /\ Len(timeline[1].progressions) = 1
    /\ timeline[1].progressions[1].entity = "ANEMIA"
    /\ timeline[1].progressions[1].pattern = "recurrent"
    /\ timeline[1].progressions[1].occurrences = 2
    /\ timeline[1].progressions[1].dates
         = <<Some(d_2024_06_01), Some(d_2024_08_01)>>

(***************************************************************************)
(* Chunk assembler: properties                                             *)
(***************************************************************************)
\* the (source, date, section) triple of a mention, a missing section
\* counting as "unspecified", and that of a chunk
TripleOf(e) ==
    <<e.source, e.date, IF e.section = None THEN unspecified ELSE e.section[1]>>

ChunkTriple(c) == <<c.source, c.date, c.section>>

\* the mentions passed in that have triple t, in input order
MentionsOf(t) == SelectSeq(ragEntities, LAMBDA e : TripleOf(e) = t)

\* the index of the first mention passed in that has triple t
FirstIndexOf(t) ==
    CHOOSE i \in 1..Len(ragEntities) :
        TripleOf(ragEntities[i]) = t
        /\ \A j \in 1..(i - 1) : TripleOf(ragEntities[j]) # t

\* C6: every mention is in exactly one chunk, the one of its (source, date,
\* section) triple with a missing section read as "unspecified": mentions
\* with the same triple share the chunk whatever their types, a chunk holds
\* nothing of a mention with another triple, and the chunks come in the
\* order in which their triples first occur in the input.
C6_Grouping ==
    ragChunks # None =>
        LET chunks == ragChunks[1]
        IN  /\ \A i \in 1..Len(ragEntities) :
                 LET mine == {k \in 1..Len(chunks) :
                                ChunkTriple(chunks[k]) = TripleOf(ragEntities[i])}
                 IN  /\ Cardinality(mine) = 1
                     /\ \A k \in mine :
                          /\ ragEntities[i].normalized \in chunks[k].entities
                          /\ ragEntities[i].type \in chunks[k].entity_types
            /\ \A k \in 1..Len(chunks) :
                 LET ents == MentionsOf(ChunkTriple(chunks[k]))
                 IN  /\ ents # <<>>
                     /\ chunks[k].entities
                          = {ents[i].normalized : i \in 1..Len(ents)}
                     /\ chunks[k].entity_types
                          = {ents[i].type : i \in 1..Len(ents)}
            /\ \A k, l \in 1..Len(chunks) :
                 k < l => FirstIndexOf(ChunkTriple(chunks[k]))
                            < FirstIndexOf(ChunkTriple(chunks[l]))

\* C6 witness: a lab with section "labs", then a symptom and a lab with no
\* section, gave the "labs" chunk and then one "unspecified" chunk holding
\* both types
C6_Witness ==
    /\ ragChunks # None
    /\ Len(ragEntities) = 3
    /\ ragEntities[1].section = Some(labs_section)
    /\ ragEntities[2].section = None /\ ragEntities[2].type = "symptom"
    /\ ragEntities[3].section = None /\ ragEntities[3].type = "lab"
    /\ TripleOf(ragEntities[2]) = TripleOf(ragEntities[3])
    /\ Len(ragChunks[1]) = 2
    /\ ragChunks[1][1].section = labs_section
    /\ ragChunks[1][2].section = unspecified
    /\ ragChunks[1][2].entity_types = {"symptom", "lab"}

\* C7: a chunk's text has at most 2000 characters; it is the first 2000
\* characters of the newline-joined, ordered, deduplicated contexts of its
\* group when those are longer, and the joined contexts unchanged otherwise.
C7_TextBound ==
    ragChunks # None =>
        \A k \in 1..Len(ragChunks[1]) :
            LET joined == JoinLines(OrderedContexts(
                              MentionsOf(ChunkTriple(ragChunks[1][k]))))
                text == ragChunks[1][k].text
            IN  /\ Len(text) <= 2000
                /\ IF Len(joined) > 2000
                   THEN text = SubSeq(joined, 1, 2000)
                   ELSE text = joined

\* C7 witness: contexts of 1200 and 800 characters, 2001 with the newline,
\* gave a text of 2000 characters that ends one character short
C7_Witness ==
    /\ ragChunks # None
    /\ Len(ragEntities) = 2
    /\ Len(ragEntities[1].context) = 1200
    /\ Len(ragEntities[2].context) = 800
    /\ Len(ragChunks[1]) = 1
    /\ Len(ragChunks[1][1].text) = 2000
    /\ ragChunks[1][1].text[1] = "y"
    /\ ragChunks[1][1].text[801] = "\n"
    /\ ragChunks[1][1].text[2000] = "x"

\* C8 (as claimed): every emitted chunk has non-empty text, also when
\* contexts passed in are empty or only whitespace: a group that retains no
\* context produces no chunk.
C8_NonEmptyText ==
    ragChunks # None =>
        \A k \in 1..Len(ragChunks[1]) : ragChunks[1][k].text # <<>>

CHEST_PAIN == <<"C","H","E","S","T","_","P","A","I","N">>

\* C9: normalization is idempotent for both normalizers (normalizing a
\* normalized id returns it unchanged), and "chest pain" normalizes to
\* "CHEST_PAIN" under both.
C9_Idempotent ==
    /\ zAgent # None =>
         /\ zAgent[2] = zAgent[1]
         /\ zInput = chest_pain => zAgent[1] = CHEST_PAIN
    /\ zService # None =>
         /\ zService[2] = zService[1]
         /\ zInput = chest_pain => zService[1] = CHEST_PAIN

\* C9 witness: both normalizers have run on an input with two separate
\* spaces and a lower-case letter, which each of them changed
C9_Witness ==
    /\ zAgent # None /\ zService # None
    /\ Cardinality({i \in 1..Len(zInput) : zInput[i] = " "}) >= 2
    /\ \E i \in 1..Len(zInput) : zInput[i] = "a"
    /\ zAgent[1] # zInput /\ zService[1] # zInput

\* C10 (as claimed): the keyword agent's normalizer and the service
\* pipeline's normalizer return the same id for every input, and the id
\* holds no whitespace (every run of it has become an underscore).
C10_SameId ==
    (zAgent # None /\ zService # None) =>
        /\ zAgent[1] = zService[1]
        /\ \A i \in 1..Len(zAgent[1]) : zAgent[1][i] \notin Whitespace

\* the date of mention e is missing, empty or unparsable
C11_BadDate(e) == ~HasDate(e)

\* the lab value of mention e is missing or float() rejects it
C11_BadValue(e) == ParseFloat(e) = None

\* how many elements of the sequence s satisfy Test
C11_Count(s, Test(_)) == Cardinality({i \in 1..Len(s) : Test(s[i])})

\* the entry of a conflict's events made from mention e
C11_ConflictEvent(e) ==
    [date |-> e.date, negated |-> e.negated, context |-> e.context,
     source |-> e.source]

C12_FalseOutOfRange ==
    nResult # None =>
        /\ nResult[1] \in BOOLEAN
        /\ (nStart <= 0 \/ nStart >= Len(nText) + 40) => nResult[1] = FALSE

\* '<source>_<date>_<section>' as the contract writes the prefix of chunk c,
\* a missing date reading 'None'
C13_Prefix(c) ==
    c.source \o <<"_">> \o (IF c.date = None THEN <<"N","o","n","e">> ELSE c.date[1])
    \o <<"_">> \o c.section

\* C13: the chunk_id values of one call are pairwise distinct, whatever
\* suffixes the call draws; each chunk_id is the prefix
\* '<source>_<date>_<section>' of its own group, a '_' and a non-empty
\* suffix; and a build of the same input that draws other suffixes returns
\* the same number of chunks with the same prefixes in the same order.
C13_ChunkIds ==
    ragChunks # None =>
        LET cs == ragChunks[1]
        IN  /\ \A i \in 1..Len(cs) : \A j \in 1..Len(cs) :
                 i # j => cs[i].chunk_id # cs[j].chunk_id
            /\ \A i \in 1..Len(cs) :
                 LET id == cs[i].chunk_id
                     n == Len(C13_Prefix(cs[i]))
                 IN  /\ \E k \in 1..Len(ragEntities) :
                            TripleOf(ragEntities[k]) = ChunkTriple(cs[i])
                     /\ Len(id) > n + 1
                     /\ SubSeq(id, 1, n) = C13_Prefix(cs[i])
                     /\ id[n + 1] = "_"
            /\ cs # <<>> =>
                 \A hexes \in [1..Len(_group_entities(ragEntities)) -> HexInputs] :
                    LET again == prepare_rag_chunks(ragEntities,
                                     cs[1].metadata.doc_type, hexes)
                    IN  /\ Len(again) = Len(cs)
                        /\ \A i \in 1..Len(cs) :
                             SubSeq(again[i].chunk_id, 1, Len(C13_Prefix(cs[i])))
                               = C13_Prefix(cs[i])

\* C13 witness: three chunks from three groups of one source, two of them
\* differing only in the date (one has none), all drawing the same suffix
C13_Witness ==
    /\ ragChunks # None
    /\ Len(ragChunks[1]) = 3
    /\ \A i \in 1..3 : ragChunks[1][i].source = er_note
    /\ \E i \in 1..3 : \E j \in 1..3 :
          /\ ragChunks[1][i].date = None
          /\ ragChunks[1][j].date # None
          /\ ragChunks[1][i].section = ragChunks[1][j].section
    /\ \A i \in 1..3 :
          SubSeq(ragChunks[1][i].chunk_id, Len(ragChunks[1][i].chunk_id) - 7,
                 Len(ragChunks[1][i].chunk_id))
            = <<"0","0","0","0","0","0","0","a">>

\* C14: no step of build_timeline or prepare_rag_chunks changes the list it
\* was given: the same mentions, in the same order, with the same value in
\* every field.
C14_InputsUnchanged ==
    [][entities' = entities /\ ragEntities' = ragEntities]_vars

\* C14 witness: both calls have returned for a list that is not in date
\* order (the returned timeline has another order) and whose mentions fall
\* into two groups, and the list is still the one both were given
C14_Witness ==
    /\ timeline # None
    /\ ragChunks # None
    /\ Len(entities) = 3
    /\ ragEntities = entities
    /\ timeline[1].timeline # entities
    /\ Len(ragChunks[1]) = 2

(***************************************************************************)
(* Extractors: properties                                                  *)
(***************************************************************************)
\* C15 (as claimed): no step of either extract_entities changes a Document
\* it was given: text, date, source and doc_type are as before the call, and
\* an absent doc_type stays absent.
C15_DocumentsUnchanged == [][docs' = docs]_vars

\* the total number of occurrences of the marker terms in the lower-cased
\* text: one for every marker and every offset at which it occurs
C16_Occurrences(text) ==
    Cardinality({ <<k, p>> \in (1..Len(lab_markers)) \X (0..Len(text)) :
                    OccursAt(Lower(text), lab_markers[k], p) })

\* C16 (as claimed): detect_doc_type returns lab_report if and only if the
\* marker terms occur at least 2 times in all in the lower-cased text, and
\* clinical_note otherwise.
C16_OccurrenceCount ==
    sDocType # None =>
        /\ sDocType[1] \in {"lab_report", "clinical_note"}
        /\ sDocType[1] = "lab_report" <=> C16_Occurrences(sText) >= 2

\* the vocabularies with the type of their category
C17_Categories ==
    { [type |-> "symptom", terms |-> symptoms],
      [type |-> "condition", terms |-> conditions],
      [type |-> "medication", terms |-> medications],
      [type |-> "procedure", terms |-> procedures] }

\* term occurs at offset p of lowered as a whole word: no letter, digit or
\* underscore directly before or after it
C17_WholeWordAt(lowered, term, p) ==
    /\ p + Len(term) <= Len(lowered)
    /\ SubSeq(lowered, p + 1, p + Len(term)) = term
    /\ p > 0 => lowered[p] \notin WordChars
    /\ p + Len(term) < Len(lowered) => lowered[p + Len(term) + 1] \notin WordChars

\* the j-th smallest element of the set occ of offsets
C17_Nth(occ, j) == CHOOSE p \in occ : Cardinality({q \in occ : q < p}) = j - 1

\* C17: in the mentions extracted from one document, every vocabulary term
\* has exactly one mention of its category's type for each of its whole-word
\* occurrences in the lower-cased text and none for an occurrence inside a
\* longer word; these mentions have no value and no unit, and the negated
\* flag of the j-th is what _is_negated returns for the text at the start
\* offset of the j-th occurrence.
C17_KeywordMentions ==
    (aOut # None /\ Len(docs) = 1) =>
        LET text == docs[1].text
            lowered == Lower(text)
        IN  \A cat \in C17_Categories : \A k \in 1..Len(cat.terms) :
              LET term == cat.terms[k]
                  occ == {p \in 0..Len(lowered) : C17_WholeWordAt(lowered, term, p)}
                  ms == SelectSeq(aOut[1],
                            LAMBDA m : m.entity = term /\ m.type = cat.type)
              IN  /\ Len(ms) = Cardinality(occ)
                  /\ \A j \in 1..Len(ms) :
                       /\ ms[j].value = None
                       /\ ms[j].unit = None
                       /\ ms[j].negated = _is_negated(text, C17_Nth(occ, j))

\* C17 witness: 'Denies fever fever': two mentions of fever, both negated,
\* and in another run 'fevers' alone, which gives no mention
C17_Witness ==
    /\ aOut # None
    /\ Len(docs) = 1
    /\ docs[1].text = <<"D","e","n","i","e","s"," ","f","e","v","e","r",
                        " ","f","e","v","e","r">>
    /\ Len(aOut[1]) = 2
    /\ \A j \in 1..2 : aOut[1][j].type = "symptom" /\ aOut[1][j].negated

\* tok is an integer of 1 to 4 digits, possibly followed by a dot and 1 or
\* 2 digits
C18_IsNumeric(tok) ==
    LET dots == {i \in 1..Len(tok) : tok[i] = "."}
        int == IF dots = {} THEN Len(tok) ELSE (CHOOSE i \in dots : TRUE) - 1
    IN  /\ \A i \in 1..Len(tok) : IsDigit(tok[i]) \/ tok[i] = "."
        /\ Cardinality(dots) <= 1
        /\ int \in 1..4
        /\ dots # {} => (Len(tok) - int - 1) \in 1..2

\* the whitespace-delimited token of line that begins at index i
C18_TokenAt(line, i) ==
    LET ends == {j \in i..Len(line) : j = Len(line) \/ line[j + 1] \in Whitespace}
    IN  SubSeq(line, i, CHOOSE j \in ends : \A k \in ends : j <= k)

\* the indices at which a numeric whitespace-delimited token of line begins
C18_NumericStarts(line) ==
    { i \in 1..Len(line) :
        /\ line[i] \notin Whitespace
        /\ i = 1 \/ line[i - 1] \in Whitespace
        /\ C18_IsNumeric(C18_TokenAt(line, i)) }

\* the index at which the first numeric token of line begins
C18_FirstNumeric(line) ==
    CHOOSE i \in C18_NumericStarts(line) : \A j \in C18_NumericStarts(line) : i <= j

\* the leading run of letters, '%' and '/' of what follows the first numeric
\* token of line, trimmed
C18_UnitToken(line) ==
    LET i == C18_FirstNumeric(line)
        after == Strip(SubSeq(line, i + Len(C18_TokenAt(line, i)), Len(line)))
        stops == {j \in 1..Len(after) :
                    after[j] \notin (LowerLetters \cup UpperLetters \cup {"/", "%"})}
    IN  IF stops = {} THEN after
        ELSE SubSeq(after, 1, (CHOOSE j \in stops : \A k \in stops : j <= k) - 1)

\* the unit normalization table applied to a token: the table's value for
\* the lower-cased token, the token itself if the table has none
C18_Normalized(token) ==
    IF \E k \in 1..Len(UNIT_CLEANUP) : UNIT_CLEANUP[k][1] = Lower(token)
    THEN UNIT_CLEANUP[CHOOSE k \in 1..Len(UNIT_CLEANUP) :
                         UNIT_CLEANUP[k][1] = Lower(token)][2]
    ELSE token

\* C18 (as claimed): the unit of a mention of extract_labs_robust is the
\* normalized leading token of letters, '%' and '/' that follows the value
\* in its line, 'mg/dL' for the line 'NAME 7.79 mgdl', and it is empty only
\* when no such token follows the value.
C18_UnitAfterValue ==
    sLabs # None =>
        \A k \in 1..Len(sLabs[1]) :
            LET m == sLabs[1][k]
            IN  /\ m.unit = Some(C18_Normalized(C18_UnitToken(m.context)))
                /\ m.unit = Some(<<>>) => C18_UnitToken(m.context) = <<>>
                /\ m.context = <<"N","A","M","E"," ","7",".","7","9"," ","m","g","d","l">>
                     => m.unit = Some(<<"m","g","/","d","L">>)

\* the contract's reasons for a line to yield no mention: its stripped
\* length is below 5, its lower-case form starts with a junk prefix, it has
\* no numeric whitespace-delimited token, or what lies left of the first
\* such token is, trimmed, shorter than 3 characters or contains a digit
C19_MustSkip(line) ==
    LET clean == Strip(line)
        name == Strip(SubSeq(clean, 1, C18_FirstNumeric(clean) - 1))
    IN  \/ Len(clean) < 5
        \/ \E k \in 1..Len(JUNK_PREFIXES) :
              /\ Len(JUNK_PREFIXES[k]) <= Len(clean)
              /\ SubSeq(Lower(clean), 1, Len(JUNK_PREFIXES[k])) = JUNK_PREFIXES[k]
        \/ C18_NumericStarts(clean) = {}
        \/ Len(name) < 3
        \/ \E i \in 1..Len(name) : IsDigit(name[i])

\* a mention of extract_labs_robust without its span, the one field that
\* is an offset into the whole text
C19_NoSpan(m) ==
    [entity |-> m.entity, type |-> m.type, value |-> m.value, unit |-> m.unit,
     negated |-> m.negated, context |-> m.context]

\* the mentions of the lines from the k-th on, each line parsed on its own
RECURSIVE C19_LineByLine(_, _)
C19_LineByLine(lines, k) ==
    IF k > Len(lines) THEN <<>>
    ELSE LET own == extract_labs_robust(lines[k])
         IN  [i \in 1..Len(own) |-> C19_NoSpan(own[i])]
             \o C19_LineByLine(lines, k + 1)

\* the lines of the text: the pieces between its line breaks
C19_Lines ==
    LET breaks == {i \in 1..Len(sText) : sText[i] = "\n"}
        starts == {1} \cup {i + 1 : i \in breaks}
    IN  [k \in 1..Cardinality(starts) |->
            LET s == CHOOSE i \in starts : Cardinality({j \in starts : j < i}) = k - 1
                later == {i \in breaks : i >= s}
            IN  SubSeq(sText, s,
                       IF later = {} THEN Len(sText)
                       ELSE (CHOOSE i \in later : \A j \in later : i <= j) - 1)]

\* C19: extract_labs_robust returns a list for every text; a line that is
\* too short, starts with a junk prefix, has no numeric token or has a name
\* that is too short or contains a digit yields no mention; and the
\* mentions of the text are, in order and but for their span, the mentions
\* every line yields when it is parsed alone, so that a skipped line takes
\* nothing from the lines after it.
C19_SkippedLines ==
    sLabs # None =>
        /\ \A k \in 1..Len(C19_Lines) :
              C19_MustSkip(C19_Lines[k]) => extract_labs_robust(C19_Lines[k]) = <<>>
        /\ [i \in 1..Len(sLabs[1]) |-> C19_NoSpan(sLabs[1][i])]
              = C19_LineByLine(C19_Lines, 1)
        /\ \A i \in 1..Len(sLabs[1]) :
              \E k \in 1..Len(C19_Lines) :
                 /\ ~C19_MustSkip(C19_Lines[k])
                 /\ sLabs[1][i].context = Strip(C19_Lines[k])

\* C19 witness: three lines of which the first has a name of 2 characters
\* and the second a junk prefix: the third yields the only mention
C19_Witness ==
    /\ sLabs # None
    /\ Len(C19_Lines) = 3
    /\ C19_Lines[1] = <<"a","b"," ","1","2"," ","m","g">>
    /\ C19_Lines[2] = <<"n","o","t","e"," ","1","2"," ","m","g">>
    /\ Len(sLabs[1]) = 1
    /\ sLabs[1][1].entity = <<"G","L","U","C">>
    /\ sLabs[1][1].span = Some(<<22, 28>>)

\* C20: for both extractors and every way of cutting the document list in
\* two, the mentions of the whole list are the mentions of the first part
\* followed by those of the second; the mentions of one document extracted
\* alone all carry its date and its source.
C20_Concatenation ==
    /\ aOut # None =>
         /\ \A k \in 0..Len(docs) :
               aOut[1] = agents_extract_entities(SubSeq(docs, 1, k))
                           \o agents_extract_entities(SubSeq(docs, k + 1, Len(docs)))
         /\ \A i \in 1..Len(docs) :
               LET own == agents_extract_entities(<<docs[i]>>)
               IN  \A j \in 1..Len(own) :
                      own[j].date = docs[i].date /\ own[j].source = docs[i].source
    /\ sOut # None =>
         /\ \A k \in 0..Len(docs) :
               sOut[1] = services_extract_entities(SubSeq(docs, 1, k))
                           \o services_extract_entities(SubSeq(docs, k + 1, Len(docs)))
         /\ \A i \in 1..Len(docs) :
               LET own == services_extract_entities(<<docs[i]>>)
               IN  \A j \in 1..Len(own) :
                      own[j].date = docs[i].date /\ own[j].source = docs[i].source

\* C20 witness: two documents with different dates and sources, a note and
\* a lab report; the agent found a mention in each of them and the service
\* found the two lab lines of the report
C20_Witness ==
    /\ aOut # None
    /\ sOut # None
    /\ Len(docs) = 2
    /\ docs[1].date # docs[2].date
    /\ docs[1].source # docs[2].source
    /\ Len(aOut[1]) = 2
    /\ aOut[1][1].date = docs[1].date
    /\ aOut[1][2].date = docs[2].date
    /\ aOut[1][1].source = docs[1].source
    /\ aOut[1][2].source = docs[2].source
    /\ Len(sOut[1]) = 2
    /\ \A j \in 1..2 : sOut[1][j].date = docs[2].date

(***************************************************************************)
(* Chunk metadata                                                          *)
(***************************************************************************)
\* the positions in the input of the lab mentions that have triple t
C21_LabPositions(t) ==
    {i \in 1..Len(ragEntities) :
        TripleOf(ragEntities[i]) = t /\ ragEntities[i].type = "lab"}

\* C21: in every emitted chunk, entities is the set of the normalized ids of
\* the group's mentions, entity_types the set of their types,
\* negated_entities the set of the ids that have a negated mention in the
\* group (a subset of entities), and labs has one {lab, value, unit, context}
\* record per lab mention of the group, in input order, repeated mentions
\* included.
C21_ChunkMetadata ==
    ragChunks # None =>
        \A k \in 1..Len(ragChunks[1]) :
            LET c == ragChunks[1][k]
                group == {i \in 1..Len(ragEntities) :
                            TripleOf(ragEntities[i]) = ChunkTriple(c)}
                labAt == C21_LabPositions(ChunkTriple(c))
                labs == c.metadata.labs
            IN  /\ c.entities = {ragEntities[i].normalized : i \in group}
                /\ c.entity_types = {ragEntities[i].type : i \in group}
                /\ c.metadata.negated_entities
                     = {n \in c.entities :
                          \E i \in group : /\ ragEntities[i].normalized = n
                                           /\ ragEntities[i].negated}
                /\ c.metadata.negated_entities \subseteq c.entities
                /\ Len(labs) = Cardinality(labAt)
                /\ \A i \in labAt :
                     LET n == Cardinality({j \in labAt : j <= i})
                     IN  /\ DOMAIN labs[n] = {"lab", "value", "unit", "context"}
                         /\ labs[n].lab = ragEntities[i].normalized
                         /\ labs[n].value = ragEntities[i].value
                         /\ labs[n].unit = ragEntities[i].unit
                         /\ labs[n].context = ragEntities[i].context

\* C21 witness: the same lab mention twice and a negated and a plain FEVER
\* in between gave one chunk with two equal lab records and FEVER among the
\* negated ids
C21_Witness ==
    /\ ragChunks # None
    /\ Len(ragEntities) = 3
    /\ ragEntities[1].type = "lab" /\ ragEntities[1].unit = Some(g_dl)
    /\ ragEntities[2].normalized = "FEVER" /\ ragEntities[2].negated
    /\ ragEntities[3] = ragEntities[1]
    /\ Len(ragChunks[1]) = 1
    /\ Len(ragChunks[1][1].metadata.labs) = 2
    /\ ragChunks[1][1].metadata.labs[1] = ragChunks[1][1].metadata.labs[2]
    /\ ragChunks[1][1].metadata.labs[1].value = Some(<<"1","2",".","0">>)
    /\ ragChunks[1][1].metadata.negated_entities = {"FEVER"}
    /\ ragChunks[1][1].entities = {"FEVER", "HEMOGLOBIN"}

(***************************************************************************)
(* Context deduplication                                                   *)
(***************************************************************************)
\* a context stripped, with every run of whitespace collapsed to one space
C22_Collapsed(context) == JoinSplit(Strip(context))

\* the positions in ents of the contexts that are first of their duplicates
C22_FirstSeen(ents) ==
    {i \in 1..Len(ents) :
        \A j \in 1..(i - 1) :
            C22_Collapsed(ents[j].context) # C22_Collapsed(ents[i].context)}

\* the lines of text, as the set of the strings between its newlines
C22_Lines(text) ==
    LET cuts == {0, Len(text) + 1} \cup {i \in 1..Len(text) : text[i] = "\n"}
    IN  {SubSeq(text, a + 1, b - 1) :
            <<a, b>> \in {p \in cuts \X cuts :
                            /\ p[1] < p[2]
                            /\ \A m \in cuts : ~(p[1] < m /\ m < p[2])}}

\* C22 (as claimed): within a group two contexts are duplicates exactly when
\* they are equal after stripping and collapsing whitespace; the first-seen
\* context of each set of duplicates is kept and no other, so two contexts
\* that differ in letter case are both kept.  Stated for the chunks whose
\* text is not cut and whose contexts hold no newline: the lines of the
\* text are the first-seen contexts, one line each.
C22_CaseSensitiveDedup ==
    ragChunks # None =>
        \A k \in 1..Len(ragChunks[1]) :
            LET c == ragChunks[1][k]
                ents == MentionsOf(ChunkTriple(c))
                kept == C22_FirstSeen(ents)
            IN  (/\ Len(c.text) < MAX_CHARS
                 /\ \A i \in 1..Len(ents) : ~Contains(Strip(ents[i].context), <<"\n">>))
                => /\ C22_Lines(c.text) = {Strip(ents[i].context) : i \in kept}
                   /\ Cardinality({i \in 1..Len(c.text) : c.text[i] = "\n"}) + 1
                        = Cardinality(kept)

(***************************************************************************)
(* Lab progressions: dates against values                                  *)
(***************************************************************************)
\* the dates of the mentions of id n whose value parses, in timeline order
C23_DatesOfParsed(n) ==
    LET ok == SelectSeq(TimelineOf(n), LAMBDA e : ParseFloat(e) # None)
    IN  [i \in 1..Len(ok) |-> ok[i].date]

\* C23 (as claimed): in every lab progression dates and values have the
\* same length and dates[i] is the date of the mention whose value is
\* values[i], also when some values of the group do not parse.
C23_DatesMatchValues ==
    timeline # None =>
        \A k \in 1..Len(timeline[1].progressions) :
            LET r == timeline[1].progressions[k]
            IN  r.pattern # "recurrent" =>
                    /\ Len(r.dates) = Len(r.values)
                    /\ r.dates = C23_DatesOfParsed(r.entity)

(***************************************************************************)
(* Order of the contexts in a chunk                                        *)
(***************************************************************************)
\* C24 (as claimed): when the mentions of a group come from one document
\* text and are passed in the order in which they occur in it, the retained
\* contexts stand in the chunk text in that order.  Stated for the mentions
\* of a note's terms, which form one group: the text is the retained
\* contexts joined in input order.
C24_DocumentOrder ==
    ragChunks # None =>
        \A note \in WindowNotes :
            ragEntities = WindowMentions(note) =>
                /\ Len(ragChunks[1]) = 1
                /\ ragChunks[1][1].text = JoinLines(UniqueContexts(ragEntities))

(***************************************************************************)
(* entity_history as a partition of the timeline                           *)
(***************************************************************************)
\* the positions in the returned timeline of the mentions of id n
C25_PositionsOf(n) ==
    {i \in 1..Len(timeline[1].timeline) : timeline[1].timeline[i].normalized = n}

\* C25: entity_history partitions the timeline by normalized id: there is
\* one group per id that occurs in the timeline and none else, no group is
\* empty, and the events of the group of id n are the timeline's mentions of
\* id n, all of them, once each and in timeline order; so every timeline
\* mention is in exactly one group, that of its own id.
C25_HistoryPartition ==
    timeline # None =>
        LET out == timeline[1].timeline
            history == timeline[1].entity_history
        IN  /\ \A g, h \in 1..Len(history) :
                 history[g].entity = history[h].entity => g = h
            /\ {history[g].entity : g \in 1..Len(history)}
                 = {out[i].normalized : i \in 1..Len(out)}
            /\ \A g \in 1..Len(history) :
                 LET events == history[g].events
                     at == C25_PositionsOf(history[g].entity)
                 IN  /\ events # <<>>
                     /\ Len(events) = Cardinality(at)
                     /\ \A i \in at :
                          events[Cardinality({j \in at : j <= i})] = out[i]
            /\ \A i \in 1..Len(out) :
                 Cardinality({g \in 1..Len(history) :
                                \E k \in 1..Len(history[g].events) :
                                   history[g].events[k].normalized = out[i].normalized}) = 1

\* C25 witness: COUGH lies between two FEVER mentions in the timeline, the
\* later FEVER having been passed in first; the FEVER group holds the two in
\* timeline order and the COUGH group the one
C25_Witness ==
    /\ timeline # None
    /\ Len(entities) = 3
    /\ entities[1].normalized = "FEVER" /\ entities[1].date = Some(d_2024_08_01)
    /\ entities[2].normalized = "FEVER" /\ entities[2].date = None
    /\ entities[3].normalized = "COUGH"
    /\ timeline[1].timeline[1].normalized = "COUGH"
    /\ Len(timeline[1].entity_history) = 2
    /\ timeline[1].entity_history[1].entity = "COUGH"
    /\ Len(timeline[1].entity_history[1].events) = 1
    /\ timeline[1].entity_history[2].entity = "FEVER"
    /\ timeline[1].entity_history[2].events
         = <<timeline[1].timeline[2], timeline[1].timeline[3]>>
    /\ timeline[1].entity_history[2].events[1].date = Some(d_2024_08_01)

(***************************************************************************)
(* Repeated calls return the same views                                    *)
(***************************************************************************)
\* a chunk without its chunk_id, and a chunk_id without its last 8
\* characters, the random suffix
C26_Content(c) == [f \in DOMAIN c \ {"chunk_id"} |-> c[f]]

C26_IdPrefix(c) == SubSeq(c.chunk_id, 1, Len(c.chunk_id) - 8)

C27_OneProgression ==
    timeline # None =>
        \A n \in InputIds :
            /\ Len(ProgressionsFor(n)) <= 1
            /\ TimelineOf(n)[1].type \in {"medication", "procedure"} =>
                  ProgressionsFor(n) = <<>>

\* C27 witness: ANEMIA is a medication first and a symptom and a lab later
\* in the timeline, and no progression is emitted
C27_Witness ==
    /\ timeline # None
    /\ Len(timeline[1].timeline) = 3
    /\ \A i \in 1..3 : timeline[1].timeline[i].normalized = "ANEMIA"
    /\ timeline[1].timeline[1].type = "medication"
    /\ timeline[1].timeline[2].type = "symptom"
    /\ timeline[1].timeline[3].type = "lab"
    /\ timeline[1].progressions = <<>>

(***************************************************************************)
(* Vector ids                                                              *)
(***************************************************************************)
C30_Passed == DictGet(uInput, "embeddings", <<>>)

\* C30: the vector ids built within one upsert_embeddings call are pairwise
\* distinct, whatever normalized ids the records share or lack, and the
\* upserted_vectors count the call reports equals the number of embedding
\* records passed in.
C30_DistinctVectorIds ==
    uResult # None =>
        /\ \A i, j \in 1..Len(uVectors) :
              i # j => uVectors[i].id # uVectors[j].id
        /\ uResult[1].report # None =>
              uResult[1].report[1].upserted_vectors = Len(C30_Passed)

\* C30 witness: a call has returned its report for twelve records of which
\* the first has the id A:1 and the others the id A, so that the positions
\* 0 and 10 are both in use
C30_Witness ==
    /\ uResult # None
    /\ uResult[1].report # None
    /\ Len(C30_Passed) = 12
    /\ uResult[1].report[1].upserted_vectors = 12
    /\ DictGet(C30_Passed[1], "normalized", None) = Some(<<"A",":","1">>)
    /\ \A i \in 2..12 :
          DictGet(C30_Passed[i], "normalized", None) = Some(<<"A">>)
    /\ uVectors[1].id = <<"d","o","c",":","A",":","1",":","0">>
    /\ uVectors[11].id = <<"d","o","c",":","A",":","1","0">>

(***************************************************************************)
(* Pipeline: the NLP step, document by document                            *)
(***************************************************************************)
C28_NlpDone == pc \notin {"run_ingestion", "run_clinical_nlp"}

C28_NlpFailures ==
    SelectSeq(state.errors, LAMBDA e : e[1] = "NLP failed for ")

C28_DocumentsOf(s) ==
    Cardinality({i \in 1..Len(state.raw_documents) :
                    state.raw_documents[i].source = s})

C28_ResultsOf(s) ==
    Cardinality({i \in 1..Len(state.nlp_results) :
                    state.nlp_results[i].doc_metadata.source = s})

C28_FailuresOf(s) ==
    Cardinality({i \in 1..Len(C28_NlpFailures) : C28_NlpFailures[i][2] = s})

\* C28: once run_clinical_nlp has run on a fresh state, every raw document
\* has given either one nlp_results entry or one NLP failure error, a
\* failure stopping none of the documents after it, so that the results
\* and the NLP failure errors together number the raw documents; and when
\* no date normalization has raised, normalized_nlp_results holds the
\* normalization of each nlp_results entry, in the same order.
C28_PerDocument ==
    C28_NlpDone =>
        /\ Len(state.nlp_results) + Len(C28_NlpFailures)
              = Len(state.raw_documents)
        /\ \A s \in FileNames :
              C28_ResultsOf(s) + C28_FailuresOf(s) = C28_DocumentsOf(s)
        /\ pc # "raised" =>
              /\ Len(state.normalized_nlp_results) = Len(state.nlp_results)
              /\ \A i \in 1..Len(state.nlp_results) :
                    \E d \in NormalizedDates :
                        state.normalized_nlp_results[i] =
                            update_dates_consistently(state.nlp_results[i],
                                                      Some(d))

\* C28 witness: of the documents a.txt and b.txt the first failed at
\* save_result_json and the second went through and was normalized
C28_Witness ==
    /\ pc = "run_embedding"
    /\ Len(state.raw_documents) = 2
    /\ state.raw_documents[1].source = "a.txt"
    /\ state.raw_documents[2].source = "b.txt"
    /\ state.errors = <<<<"NLP failed for ", "a.txt", ": ", "save_result_json">>>>
    /\ Len(state.nlp_results) = 1
    /\ state.nlp_results[1].doc_metadata.source = "b.txt"
    /\ Len(state.normalized_nlp_results) = 1
    /\ state.normalized_nlp_results[1].doc_metadata.source = "b.txt"

(***************************************************************************)
(* Pipeline: a run whose ingestion gives no documents                      *)
(***************************************************************************)
C29_Case == pc # "run_ingestion" /\ state.raw_documents = <<>>

C29_IsIngestionError(e) ==
    \/ e = <<"Ingestion produced no documents">>
    \/ e[1] = "Ingestion failed: "

C29_Expected(ingestionError) ==
    << ingestionError,
       <<"No documents for NLP">>,
       <<"No normalized NLP results for reasoning">> >>

\* the errors due once the steps before pc have run
C29_ErrorsDue ==
    IF pc = "run_clinical_nlp" THEN 1
    ELSE IF pc \in {"run_embedding", "run_vector_upsert", "run_reasoning"} THEN 2
    ELSE 3

C29_IsPrefix(s, t) == Len(s) <= Len(t) /\ s = SubSeq(t, 1, Len(s))

C29_State ==
    C29_Case =>
        /\ pc # "raised"
        /\ state.nlp_results = <<>>
        /\ state.normalized_nlp_results = <<>>
        /\ state.embedding_results = <<>>
        /\ state.vector_store_results = <<>>
        /\ state.reasoning_result = None
        /\ C29_IsIngestionError(state.errors[1])
        /\ state.errors = SubSeq(C29_Expected(state.errors[1]), 1, C29_ErrorsDue)
        /\ pc # "done" => ENABLED OrchNext
        /\ pc = "done" =>
              /\ state.current_step = Some("clinical_reasoning")
              /\ response # None
              /\ response[1].status_code = 500

\* C29: when ingestion yields no documents or fails, the five steps still
\* run to the end without raising; the four result lists stay empty and
\* reasoning_result unset; errors is only ever appended to and holds the
\* ingestion error, then 'No documents for NLP', then 'No normalized NLP
\* results for reasoning'; and /analyze answers with status 500.
C29_EmptyIngestion ==
    /\ [] C29_State
    /\ [][C29_Case' => C29_IsPrefix(state.errors, state'.errors)]_vars

\* C29 witness: ingest_files raised, the run is over and has been answered
C29_Witness ==
    /\ pc = "done"
    /\ state.raw_documents = <<>>
    /\ state.errors = C29_Expected(<<"Ingestion failed: ", "ingest_files">>)
    /\ response = Some([status_code |-> 500,
                        detail      |-> Some("Clinical reasoning failed"),
                        body        |-> None])

====
